---- MODULE Spec2Model ----
(***************************************************************************)
(* Verification model of tzarc/qmk_modules: the filesystem core            *)
(* (mount reference count, handle table, descriptor allocator, path        *)
(* validation, the filesystem mutex), the dynamic keymap store, the        *)
(* eeconfig store, the flash block device, the SFDP probe and its density  *)
(* decoding, the Konami code detector and the keycode lookup by name.      *)
(***************************************************************************)
EXTENDS Integers, Sequences, FiniteSets, TLC

(***************************************************************************)
(* Program constants.                                                      *)
(***************************************************************************)
\* filesystem.h: descriptors 0..3 are reserved, 0 is the invalid descriptor
FIRST_VALID_FD == 4
INVALID_FILESYSTEM_FD == 0
\* filesystem.h: configurable (#ifndef); the model uses a table of two handles
FS_MAX_NUM_OPEN_FDS == 2
FS_MAX_DIR_DEPTH == 3
FS_MAX_FILE_DEPTH == FS_MAX_DIR_DEPTH + 1
\* rules.mk: -DLFS_NAME_MAX=40, the longest name of a directory entry; the
\* model's longest names have this many characters
LFS_NAME_MAX == 2
\* the size of the buffer in which fs_rmdir_nolock builds the path of a child
MAX_PATH_BUFFER_SIZE == LFS_NAME_MAX * FS_MAX_FILE_DEPTH + (FS_MAX_FILE_DEPTH - 1) + 1
\* fs_mode_t
FS_READ == 1
FS_WRITE == 2
FS_TRUNCATE == 4
\* littlefs error codes used by the code
LFS_ERR_OK == 0
LFS_ERR_NOENT == -2
LFS_ERR_EXIST == -17
LFS_ERR_NOTDIR == -20
LFS_ERR_ISDIR == -21
LFS_ERR_NOTEMPTY == -39
LFS_ERR_INVAL == -22
\* nvm_dynamic_keymap.c: the direction indexes of the encoder map
ENCODER_ARRAYINDEX_CW == 0
ENCODER_ARRAYINDEX_CCW == 1

(***************************************************************************)
(* Bounds of the model.                                                    *)
(***************************************************************************)
\* The largest descriptor value: stands for UINT16_MAX in allocate_fd, so that
\* the wrap of the rotating counter back to FIRST_VALID_FD happens.
FdCounterMax == 6
\* The environment calls fs_mount only while mount_count is below this.
MaxMountCount == 3
\* The stack holds this many nested rounds of fs_mount_nolock ->
\* fs_format_nolock -> fs_init_nolock -> fs_mount_nolock.
MaxNesting == 3
\* Files are 0..MaxFileSize bytes long, with the position in the same range.
MaxFileSize == 2
\* The SFDP header announces up to MaxHeaderCount + 1 parameter headers and
\* the base table has up to MaxTableDwords dwords.
MaxHeaderCount == 1
MaxTableDwords == 2
\* fs_mount / fs_unmount calls tallied in hist; longer call sequences are not
\* tallied.
MaxTallied == 4
\* Longest path string enumerated for the path validators.
MaxPathLen == 5
\* Largest max_depth argument enumerated for fs_is_path_depth_valid.
MaxDepthArg == 4
\* Keymap dimensions of the two modelled keyboards (configuration values of a
\* build): one with two layers of two keys, one with one layer of five keys.
NarrowLayers == 2
NarrowCols == 2
WideLayers == 1
WideCols == 5
MATRIX_ROWS == 1
\* Stands for sizeof(layer_state_t) * 8 (8, 16 or 32 in a build).
LayerStateBits == 3
\* Keycodes are 0..MaxKeycode.
MaxKeycode == 1
\* The keyboard built with ENCODER_MAP_ENABLE: its layers and its encoders
\* (DYNAMIC_KEYMAP_LAYER_COUNT and NUM_ENCODERS of that build).
EncoderLayers == 1
EncoderCount == 2
\* Stands for sizeof(dynamic_macro_buffer), 1024 in the code.
MacroBufferSize == 3
\* Macro bytes are 0..MaxMacroByte, 0 being the terminator.
MaxMacroByte == 1
\* Stands for EECONFIG_KB_DATA_SIZE and EECONFIG_USER_DATA_SIZE of the build.
EeBlockSize == 2
\* Bytes handed to the eeconfig calls are 0..MaxEeByte.
MaxEeByte == 1
\* The longest block handed to fs_update_block directly.
MaxBlockLen == 2
\* eeconfig.h of QMK (not part of this repository): the two magic numbers that
\* nvm_eeconfig_enable and nvm_eeconfig_disable store in ee/magic.
EECONFIG_MAGIC_NUMBER == 65253
EECONFIG_MAGIC_NUMBER_OFF == 65535
\* The block device computes in uint32_t; the model keeps the arithmetic and
\* narrows the word to WordBits bits, so that every word can be enumerated.
WordBits == 4
LFS_ERR_IO == -5
\* The density fields tried are 0..MaxDensity and a few larger ones.
MaxDensity == 40
\* Keycode names are 1..MaxNameLen characters out of 1..MaxChar, and the
\* keycode table has 1..MaxTableLen entries.
MaxNameLen == 3
MaxChar == 2
MaxTableLen == 3
\* size_t has SizeBits bits (16 on the 8-bit targets, 32 on the others).
SizeBits == 16

VARIABLES
    \* ---- filesystem core (part_005) ----
    mount_count,    \* static int mount_count
    current_fd,     \* static fs_fd_t current_fd
    fs_handles,     \* static fs_lfs_handle_t fs_handles[FS_MAX_NUM_OPEN_FDS]
    disk,           \* backing store: "blank" (no valid superblock), "formatted",
                    \* "unmountable" (takes a format, fails every mount) or
                    \* "unformattable" (fails every format and every mount)
    tree,           \* backing store: node (sequence of names) -> "dir" | "file"
    issued,         \* the descriptors handed out most recently, latest first
    stack_overflow, \* a call nested deeper than the stack holds
    last,           \* the result of the last completed public call
    hist,           \* what kind of calls were made so far, with mount/unmount tallies
    unbalanced,     \* fs_unmount was called while mount_count <= open handles
    \* ---- threads calling the public API ----
    fs_mutex,       \* owner of fs_mutex, or NoThread
    pc,             \* per thread: where in a public call it is
    cur,            \* per thread: the call in progress
    unlocks,        \* per thread: fs_unlock calls made by the call in progress
    \* ---- path validators applied to an enumerated input ----
    path_in,
    depth_in,
    path_out,
    \* ---- dynamic keymap store (nvm_dynamic_keymap.c) ----
    dynamic_keymap_layer_dirty,     \* the set of layers whose bit is set
    dynamic_keymap_altered_count,   \* layer -> uint16_t
    dynamic_keymap_altered_keys,    \* layer -> the set of key indexes whose bit is set
    dynamic_keymap_layer_cache,     \* layer -> key index -> keycode
    dynamic_keymap_scratch,         \* write_mode and the union, as 16-bit words
    layer_files,                    \* layer -> content of layers/keyNN, or NoFile
    store_loaded,                   \* load or erase has run since start-up
    store_clobbered,                \* an out-of-bounds store of load has hit the store
    io_faulted,                     \* a filesystem fault has occurred in save or load
    keyboard,                       \* the build: its layer count and matrix columns
    oob_layout,                     \* the build: where its out-of-bounds stores land
    \* ---- encoder map store (nvm_dynamic_keymap.c, ENCODER_MAP_ENABLE) ----
    dynamic_encodermap_layer_dirty,     \* the set of layers whose bit is set
    dynamic_encodermap_altered_count,   \* layer -> uint16_t
    dynamic_encodermap_altered_keys,    \* layer -> the set of indexes whose bit is set
    dynamic_encodermap_layer_cache,     \* layer -> encoder * NUM_DIRECTIONS + direction -> keycode
    encoder_files,                      \* layer -> content of layers/encNN, or NoFile
    \* ---- macro store (nvm_dynamic_keymap.c) ----
    dynamic_macro_altered,          \* bool dynamic_macro_altered
    dynamic_macro_buffer,           \* index -> byte
    macro_files,                    \* n -> content of macros/NN, or NoFile
    macro_out,                      \* what the last macro read_buffer stored in data
    \* ---- eeconfig store (nvm_eeconfig.c) ----
    ee_dir,         \* the directory ee/ exists
    ee_files,       \* file name -> content of the file, or NoFile
    ee_last,        \* the last call: its name, the filesystem calls it made, its output
    ee_ref,         \* the reference byte array of the data block, <<>> before init
    datablock,      \* the build: which data block it has and the version it expects
    \* ---- block device callbacks (part_007) ----
    dev_in,         \* the lfs_config and the block, off and size of the request
    dev_out,        \* the last callback: its name, its result, the address it used
    \* ---- SFDP parameter table (sfdp_flash.c) ----
    sfdp_in,        \* the second flash parameter dword: density and is_high_density
    sfdp_out,       \* bits and bytes as case 2 of the parser computed them
    \* ---- Konami code (process_record_konami_code) ----
    konami_index,   \* static uint8_t konami_index
    konami_event,   \* the last key event: keycode, pressed, tap.count
    konami_before,  \* konami_index before the last event
    handler_called, \* the last event called konami_code_handler
    konami_seen,    \* how many keys of the code were released in order, undisturbed
    konami_typed,   \* how many of the most recent counted releases are the
                    \* start of the code
    \* ---- keycode lookup (part_001) ----
    keycode_names,  \* the generated table: the names in sorted order
    lookup_name,    \* the name looked up
    lookup_out,     \* what lookup_keycode_by_name did with it
    \* ---- two execution contexts in the keymap stores ----
    ctx,            \* per context: the operation in progress and where it stands
    \* ---- fs_is_eof (part_005) ----
    eof_in,         \* the handle table, mount_count, the descriptor asked about
                    \* and the littlefs call that fails, if one does
    eof_out,        \* what fs_is_eof returned and the handle table it left
    \* ---- fs_rmdir on whole trees ----
    rmdir_last,     \* the last fs_rmdir call: its arguments, the state it
                    \* found, its result and the deepest nesting it reached
    \* ---- sfdp_init (sfdp_flash.c) ----
    sfdp_dev,       \* the SFDP descriptor the flash part answers with
    sfdp,           \* sfdp_runtime_t: was_checked, is_supported
    sfdp_call       \* the last sfdp_init call: its result and what it did on
                    \* the SPI bus

fsVars == <<mount_count, current_fd, fs_handles, disk, tree, issued, stack_overflow>>
seqVars == <<last, hist, unbalanced>>
mtVars == <<fs_mutex, pc, cur, unlocks>>
pathVars == <<path_in, depth_in, path_out>>
encVars == <<dynamic_encodermap_layer_dirty, dynamic_encodermap_altered_count,
             dynamic_encodermap_altered_keys, dynamic_encodermap_layer_cache,
             encoder_files>>
macVars == <<dynamic_macro_altered, dynamic_macro_buffer, macro_files, macro_out>>
eeVars == <<ee_dir, ee_files, ee_last, ee_ref, datablock>>
devVars == <<dev_in, dev_out>>
sfdpVars == <<sfdp_in, sfdp_out>>
konamiVars == <<konami_index, konami_event, konami_before, handler_called, konami_seen,
               konami_typed>>
lookupVars == <<keycode_names, lookup_name, lookup_out>>
eofVars == <<eof_in, eof_out>>
probeVars == <<sfdp_dev, sfdp, sfdp_call>>
tailVars == <<rmdir_last, probeVars>>
lateVars == <<ctx, eofVars, tailVars>>
moreVars == <<eeVars, devVars, sfdpVars, konamiVars, lookupVars, lateVars>>
kmVars == <<dynamic_keymap_layer_dirty, dynamic_keymap_altered_count,
            dynamic_keymap_altered_keys, dynamic_keymap_layer_cache,
            dynamic_keymap_scratch, layer_files, store_loaded,
            store_clobbered, io_faulted, keyboard, oob_layout, encVars, macVars,
            moreVars>>
vars == <<fsVars, seqVars, mtVars, pathVars, kmVars>>

(***************************************************************************)
(* The dynamic keymap store (nvm_dynamic_keymap.c).                        *)
(***************************************************************************)
NarrowKeyboard == [layers |-> NarrowLayers, cols |-> NarrowCols, encoders |-> 0]
WideKeyboard == [layers |-> WideLayers, cols |-> WideCols, encoders |-> 0]
\* a build with ENCODER_ENABLE and ENCODER_MAP_ENABLE; the others have neither
EncoderKeyboard == [layers |-> EncoderLayers, cols |-> 1, encoders |-> EncoderCount]
Keyboards == {NarrowKeyboard, WideKeyboard}
DYNAMIC_KEYMAP_LAYER_COUNT == keyboard.layers
MATRIX_COLS == keyboard.cols
NUM_ENCODERS == keyboard.encoders
NUM_DIRECTIONS == ENCODER_ARRAYINDEX_CCW + 1

Layers == 0..(DYNAMIC_KEYMAP_LAYER_COUNT - 1)
\* index = row * MATRIX_COLS + col, the row-major position of a key
Keys == 0..(MATRIX_ROWS * MATRIX_COLS - 1)
Rows == 0..(MATRIX_ROWS - 1)
Cols == 0..(MATRIX_COLS - 1)
Keycodes == 0..MaxKeycode
Encoders == 0..(NUM_ENCODERS - 1)
Directions == 0..(NUM_DIRECTIONS - 1)
\* index = encoder * NUM_DIRECTIONS + direction
Positions == 0..(NUM_ENCODERS * NUM_DIRECTIONS - 1)

ALIGN_TO_2(x) == ((x + 1) \div 2) * 2
\* sizeof(keymap_override_entry_t) / sizeof(uint16_t) is 2
MAX_KEYMAP_OVERRIDES == (ALIGN_TO_2(MATRIX_ROWS) * ALIGN_TO_2(MATRIX_COLS)) \div 2
\* sizeof(dynamic_keymap_layer_cache)
CacheBytes == DYNAMIC_KEYMAP_LAYER_COUNT * MATRIX_ROWS * MATRIX_COLS * 2
\* sizeof(encodermap_override_entry_t) / sizeof(uint16_t) is 2
MAX_ENCODERMAP_OVERRIDES == (ALIGN_TO_2(NUM_ENCODERS) * ALIGN_TO_2(NUM_DIRECTIONS)) \div 2

\* The compile-time keymap; a layer the keymap does not have reads as 0.
keycode_at_keymap_location_raw(layer, row, column) ==
    IF layer \in Layers THEN (layer + row + column) % (MaxKeycode + 1) ELSE 0

\* The compile-time encoder map, by direction of rotation: the two directions
\* of an encoder have different defaults.
keycode_at_encodermap_location_raw(layer, encoder_idx, clockwise) ==
    IF layer \in Layers
    THEN (layer + encoder_idx + (IF clockwise THEN 1 ELSE 0)) % (MaxKeycode + 1)
    ELSE 0

\* The packed union behind write_mode, as little-endian 16-bit words: word
\* r * MATRIX_COLS + c is keymap_layer[r][c]; words 2j and 2j+1 are override
\* entry j, the first holding row (low byte) and col (high byte), the second
\* the keycode.  With an encoder map the union also holds encodermap_layer
\* (word e * NUM_DIRECTIONS + d) and the encoder override entries (encoder_id
\* in the low byte, enc_dir in the high byte); its size is that of its largest
\* member.
ScratchWordCount ==
    IF MAX_ENCODERMAP_OVERRIDES > MAX_KEYMAP_OVERRIDES
    THEN 2 * MAX_ENCODERMAP_OVERRIDES
    ELSE 2 * MAX_KEYMAP_OVERRIDES
ScratchWords == 0..(ScratchWordCount - 1)
ZeroScratch == [write_mode |-> 0, words |-> [i \in ScratchWords |-> 0]]
NoFile == [absent |-> TRUE]

\* The store as one record, for the operators below.
KmState ==
    [cache |-> dynamic_keymap_layer_cache,
     altered_keys |-> dynamic_keymap_altered_keys,
     altered_count |-> dynamic_keymap_altered_count,
     dirty |-> dynamic_keymap_layer_dirty,
     scratch |-> dynamic_keymap_scratch,
     files |-> layer_files,
     \* per call: what save handed to the filesystem for each layer,
     \* whether load read beyond the scratch, the values of layer with which
     \* the cache, the altered bitmap and the altered counts were indexed, and
     \* idx after the last fill of keymap_layer_overrides
     submitted |-> [l \in Layers |-> [op |-> "none"]],
     overrun |-> FALSE,
     indexed |-> {},
     entries |-> 0]

KeyIndex(row, col) == row * MATRIX_COLS + col

is_key_altered(k, layer, row, col) == KeyIndex(row, col) \in k.altered_keys[layer]

set_key_altered(k, layer, row, col, val) ==
    LET index == KeyIndex(row, col)
        orig_val == index \in k.altered_keys[layer]
    IN  [k EXCEPT
            !.altered_count[layer] =
                IF val # orig_val
                THEN (IF val THEN @ + 1 ELSE @ - 1) % 65536
                ELSE @,
            !.altered_keys[layer] =
                IF val THEN @ \cup {index} ELSE @ \ {index}]

nvm_dynamic_keymap_read_keycode(k, layer, row, column) ==
    IF layer >= DYNAMIC_KEYMAP_LAYER_COUNT \/ row >= MATRIX_ROWS \/ column >= MATRIX_COLS
    THEN 0
    ELSE k.cache[layer][KeyIndex(row, column)]

\* An update that would skip the store and the dirty bit when the cache
\* already holds the keycode; the code makes no such test.
UpdateKeycodeWhenChanged(k, layer, row, column, keycode) ==
    IF layer >= DYNAMIC_KEYMAP_LAYER_COUNT \/ row >= MATRIX_ROWS \/ column >= MATRIX_COLS
    THEN k
    ELSE IF k.cache[layer][KeyIndex(row, column)] = keycode THEN k
    ELSE LET written == [k EXCEPT !.cache[layer][KeyIndex(row, column)] = keycode]
             marked == set_key_altered(written, layer, row, column,
                           keycode # keycode_at_keymap_location_raw(layer, row, column))
         IN  [marked EXCEPT !.dirty = @ \cup {layer}]

nvm_dynamic_keymap_update_keycode(k, layer, row, column, keycode) ==
    IF layer >= DYNAMIC_KEYMAP_LAYER_COUNT \/ row >= MATRIX_ROWS \/ column >= MATRIX_COLS
    THEN k
    ELSE LET written == [k EXCEPT !.cache[layer][KeyIndex(row, column)] = keycode]
             marked == set_key_altered(written, layer, row, column,
                           keycode # keycode_at_keymap_location_raw(layer, row, column))
         IN  [marked EXCEPT !.dirty = @ \cup {layer}]

\* nvm_dynamic_keymap_reset_cache_layer_to_raw for a layer the arrays have
nvm_dynamic_keymap_reset_cache_layer_to_raw(k, layer) ==
    [k EXCEPT
        !.cache[layer] = [i \in Keys |->
            keycode_at_keymap_location_raw(layer, i \div MATRIX_COLS, i % MATRIX_COLS)],
        !.altered_count[layer] = 0,
        !.altered_keys[layer] = {},
        !.indexed = @ \cup {layer}]

RECURSIVE ResetLayersFrom(_, _)
ResetLayersFrom(k, i) ==
    IF i < DYNAMIC_KEYMAP_LAYER_COUNT
    THEN ResetLayersFrom(nvm_dynamic_keymap_reset_cache_layer_to_raw(k, i), i + 1)
    ELSE k

nvm_dynamic_keymap_reset_cache_to_raw(k) == ResetLayersFrom(k, 0)

\* fs_rmdir("layers", true); fs_mkdir("layers"); then the cache is reset
nvm_dynamic_keymap_erase(k) ==
    nvm_dynamic_keymap_reset_cache_to_raw(
        [k EXCEPT !.files = [l \in Layers |-> NoFile]])

\* the loop of nvm_dynamic_keymap_update_buffer over 16-bit source words
RECURSIVE UpdateBufferFrom(_, _, _, _, _)
UpdateBufferFrom(k, offset, end, data, i) ==
    IF offset < end
    THEN LET layer == (offset \div (MATRIX_ROWS * MATRIX_COLS * 2)) % 65536
             row == (offset \div (MATRIX_COLS * 2)) % MATRIX_ROWS
             col == (offset \div 2) % MATRIX_COLS
         IN  UpdateBufferFrom(
                 nvm_dynamic_keymap_update_keycode(k, layer % 256, row, col, data[i]),
                 offset + 2, end, data, i + 1)
    ELSE k

\* offset and size are uint32_t: when the size is clipped to
\* sizeof(cache) - offset, which wraps for an offset beyond the cache, the sum
\* end = offset + size is sizeof(cache) modulo 2^32 in every case.  The
\* offsets and sizes passed here are far below 2^31, so offset + size itself
\* does not wrap.
BufferEnd(offset, size) ==
    IF offset + size >= CacheBytes THEN CacheBytes ELSE offset + size

nvm_dynamic_keymap_update_buffer(k, offset, size, data) ==
    UpdateBufferFrom(k, offset, BufferEnd(offset, size), data, 1)

\* the row/col loops of the override branch of save: entry idx receives the
\* next altered key; an entry beyond the array is outside the scratch
RECURSIVE FillOverrides(_, _, _, _)
FillOverrides(k, layer, key, idx) ==
    IF key >= MATRIX_ROWS * MATRIX_COLS THEN [k EXCEPT !.entries = idx]
    ELSE IF key \in k.altered_keys[layer]
    THEN FillOverrides(
             [k EXCEPT !.scratch.words =
                 [i \in ScratchWords |->
                     IF i = 2 * idx
                     THEN (key \div MATRIX_COLS) + 256 * (key % MATRIX_COLS)
                     ELSE IF i = 2 * idx + 1 THEN k.cache[layer][key]
                     ELSE @[i]]],
             layer, key + 1, idx + 1)
    ELSE FillOverrides(k, layer, key + 1, idx)

\* What an operation of the environment suffers: no fault, or a fault of the
\* filesystem while the file of one layer is handled.  In save: "fail", the
\* open for writing (or the delete) fails; "short", fs_write writes fewer bytes
\* than asked, here the mode byte only.  In load: "open", fs_open fails;
\* "read", fs_read returns -1 and stores nothing.
NoFault == [kind |-> "none", layer |-> 0]
SaveFaults == {NoFault} \cup [kind : {"fail", "short"}, layer : Layers]
LoadFaults == {NoFault} \cup [kind : {"open", "read"}, layer : Layers]
FaultAt(fault, layer, kind) == fault.kind = kind /\ fault.layer = layer

\* fs_chunked_data_compare: the first bytes of the file equal the block
SameAsFile(file, block) ==
    /\ file # NoFile
    /\ file.write_mode = block.write_mode
    /\ Len(file.words) >= Len(block.words)
    /\ \A i \in 1..Len(block.words) : file.words[i] = block.words[i]

\* fs_update_block (nvm_eeconfig.c): nothing is written when the file already
\* starts with the block; else the file is opened with FS_WRITE | FS_TRUNCATE
\* and the block is written
fs_update_block(file, block, fault_kind) ==
    IF SameAsFile(file, block) THEN file
    ELSE IF fault_kind = "fail" THEN file
    ELSE IF fault_kind = "short" THEN [write_mode |-> block.write_mode, words |-> <<>>]
    ELSE block

\* fs_delete(filename)
DeleteFile(file, fault_kind) == IF fault_kind = "fail" THEN file ELSE NoFile

\* fs_update_block(filename, &dynamic_keymap_scratch, 1 + 2 * nwords)
ScratchBlock(k, nwords) ==
    [write_mode |-> k.scratch.write_mode,
     words |-> [i \in 1..nwords |-> k.scratch.words[i - 1]]]

SubmitScratch(k, layer, nwords, fault_kind) ==
    [k EXCEPT
        !.files[layer] = fs_update_block(@, ScratchBlock(k, nwords), fault_kind),
        !.submitted[layer] = [op |-> "update", block |-> ScratchBlock(k, nwords)]]

\* one iteration of the layer loop of save
SaveLayer(k, layer, fault_kind) ==
    IF layer \notin k.dirty THEN k
    ELSE IF k.altered_count[layer] = 0
    THEN [k EXCEPT !.files[layer] = DeleteFile(@, fault_kind),
                   !.submitted[layer] = [op |-> "delete"],
                   !.indexed = @ \cup {layer}]
    ELSE IF MATRIX_ROWS * MATRIX_COLS * 2 <= 4 * k.altered_count[layer]
    THEN SubmitScratch(
             [k EXCEPT !.indexed = @ \cup {layer},
                       !.scratch.write_mode = 0,
                       !.scratch.words = [i \in ScratchWords |->
                           IF i \in Keys THEN k.cache[layer][i] ELSE @[i]]],
             layer, MATRIX_ROWS * MATRIX_COLS, fault_kind)
    ELSE SubmitScratch(
             FillOverrides([k EXCEPT !.indexed = @ \cup {layer},
                                     !.scratch.write_mode = 1], layer, 0, 0),
             layer, 2 * k.altered_count[layer], fault_kind)

RECURSIVE SaveLayersFrom(_, _, _)
SaveLayersFrom(k, layer, fault) ==
    IF layer < LayerStateBits
    THEN SaveLayersFrom(
             SaveLayer(k, layer, IF fault.layer = layer THEN fault.kind ELSE "none"),
             layer + 1, fault)
    ELSE k

nvm_dynamic_keymap_save(k, fault) ==
    IF k.dirty = {} THEN k
    ELSE [SaveLayersFrom(k, 0, fault) EXCEPT !.dirty = {}]

\* fs_read(fd, &dynamic_keymap_scratch, sizeof(dynamic_keymap_scratch)): the
\* bytes of the file replace the start of the scratch, the rest stays
ReadIntoScratch(k, file) ==
    [k EXCEPT !.scratch =
        [write_mode |-> file.write_mode,
         words |-> [i \in ScratchWords |->
             IF i < Len(file.words) THEN file.words[i + 1] ELSE k.scratch.words[i]]]]

RECURSIVE ApplyFullFrom(_, _, _)
ApplyFullFrom(k, layer, key) ==
    IF key >= MATRIX_ROWS * MATRIX_COLS THEN k
    ELSE ApplyFullFrom(
             nvm_dynamic_keymap_update_keycode(k, layer, key \div MATRIX_COLS,
                 key % MATRIX_COLS, k.scratch.words[key]),
             layer, key + 1)

RECURSIVE ApplyOverridesFrom(_, _, _, _)
ApplyOverridesFrom(k, layer, j, count) ==
    IF j >= count THEN k
    ELSE ApplyOverridesFrom(
             nvm_dynamic_keymap_update_keycode(k, layer, k.scratch.words[2 * j] % 256,
                 k.scratch.words[2 * j] \div 256, k.scratch.words[2 * j + 1]),
             layer, j + 1, count)

\* what load does with the scratch once a layer file has been read;
\* bytes_read is 1 + 2 * Len(file.words)
ApplyScratch(k, layer, nwords) ==
    IF k.scratch.write_mode = 0
    THEN ApplyFullFrom(k, layer, 0)
    ELSE ApplyOverridesFrom(k, layer, 0, (2 * nwords) \div 4)

\* fs_read returned -1: the scratch is as it was and bytes_read is SIZE_MAX,
\* so in override mode count is far larger than the array and the loop goes on
\* reading beyond the scratch once its MAX_KEYMAP_OVERRIDES entries are applied
ApplyUnreadScratch(k, layer) ==
    IF k.scratch.write_mode = 0
    THEN ApplyFullFrom(k, layer, 0)
    ELSE [ApplyOverridesFrom(k, layer, 0, MAX_KEYMAP_OVERRIDES) EXCEPT !.overrun = TRUE]

\* one iteration of the layer loop of load, for a layer the arrays have
LoadLayer(k, layer, fault_kind) ==
    IF k.files[layer] = NoFile \/ fault_kind = "open"
    THEN nvm_dynamic_keymap_reset_cache_layer_to_raw(k, layer)
    ELSE IF fault_kind = "read"
    THEN ApplyUnreadScratch(nvm_dynamic_keymap_reset_cache_layer_to_raw(k, layer), layer)
    ELSE ApplyScratch(
             ReadIntoScratch(nvm_dynamic_keymap_reset_cache_layer_to_raw(k, layer),
                             k.files[layer]),
             layer, Len(k.files[layer].words))

RECURSIVE LoadLayersFrom(_, _, _)
LoadLayersFrom(k, layer, fault) ==
    IF layer < DYNAMIC_KEYMAP_LAYER_COUNT
    THEN LoadLayersFrom(
             LoadLayer(k, layer, IF fault.layer = layer THEN fault.kind ELSE "none"),
             layer + 1, fault)
    ELSE k

\* The load loop runs layer up to sizeof(layer_state_t) * 8 and calls
\* nvm_dynamic_keymap_reset_cache_layer_to_raw(layer) before anything else.
\* For layer >= DYNAMIC_KEYMAP_LAYER_COUNT the three stores of that function
\* fall outside their arrays; where they land depends on how the build lays
\* out the statics.  The outcomes kept here: nothing of the store is hit; the
\* store to altered_count[layer] or the memset lands on the altered bitmap of
\* a layer; the memset of altered_keys[layer] lands on the cache of a layer.
\* The layout is a property of the build: every load of a run has the same
\* outcome, which is not known before the first load.
UnknownLayout == [hit |-> "unknown", layer |-> 0]

OutOfBoundsOutcomes ==
    {[hit |-> "nothing", layer |-> 0]}
        \cup [hit : {"altered_keys", "cache"}, layer : Layers]

\* the values of layer from DYNAMIC_KEYMAP_LAYER_COUNT up to the end of the
\* load loop
LayersBeyond == DYNAMIC_KEYMAP_LAYER_COUNT..(LayerStateBits - 1)

ResetOutOfBounds(k, outcome) ==
    IF outcome.hit = "altered_keys"
    THEN [k EXCEPT !.altered_keys[outcome.layer] = {}, !.indexed = @ \cup LayersBeyond]
    ELSE IF outcome.hit = "cache"
    THEN [k EXCEPT !.cache[outcome.layer] = [i \in Keys |-> 0],
                   !.indexed = @ \cup LayersBeyond]
    ELSE [k EXCEPT !.indexed = @ \cup LayersBeyond]

nvm_dynamic_keymap_load(k, outcome, fault) ==
    IF LayerStateBits > DYNAMIC_KEYMAP_LAYER_COUNT
    THEN ResetOutOfBounds(LoadLayersFrom(k, 0, fault), outcome)
    ELSE LoadLayersFrom(k, 0, fault)

SetKmState(k) ==
    /\ dynamic_keymap_layer_cache' = k.cache
    /\ dynamic_keymap_altered_keys' = k.altered_keys
    /\ dynamic_keymap_altered_count' = k.altered_count
    /\ dynamic_keymap_layer_dirty' = k.dirty
    /\ dynamic_keymap_scratch' = k.scratch
    /\ layer_files' = k.files


(***************************************************************************)
(* The encoder map store: the same pattern over (encoder, direction).      *)
(***************************************************************************)
EncState ==
    [cache |-> dynamic_encodermap_layer_cache,
     altered_keys |-> dynamic_encodermap_altered_keys,
     altered_count |-> dynamic_encodermap_altered_count,
     dirty |-> dynamic_encodermap_layer_dirty,
     scratch |-> dynamic_keymap_scratch,
     files |-> encoder_files,
     submitted |-> [l \in Layers |-> [op |-> "none"]]]

DirectionIndex(clockwise) ==
    IF clockwise THEN ENCODER_ARRAYINDEX_CW ELSE ENCODER_ARRAYINDEX_CCW

is_encodermap_altered(e, layer, encoder_idx, clockwise) ==
    (encoder_idx * NUM_DIRECTIONS + DirectionIndex(clockwise)) \in e.altered_keys[layer]

set_encodermap_altered(e, layer, encoder_idx, clockwise, val) ==
    LET index == encoder_idx * NUM_DIRECTIONS + (IF clockwise THEN 0 ELSE 1)
        orig_val == index \in e.altered_keys[layer]
    IN  [e EXCEPT
            !.altered_count[layer] =
                IF val # orig_val
                THEN (IF val THEN @ + 1 ELSE @ - 1) % 65536
                ELSE @,
            !.altered_keys[layer] =
                IF val THEN @ \cup {index} ELSE @ \ {index}]

nvm_dynamic_keymap_read_encoder(e, layer, encoder_id, clockwise) ==
    IF layer >= DYNAMIC_KEYMAP_LAYER_COUNT \/ encoder_id >= NUM_ENCODERS
    THEN 0
    ELSE e.cache[layer][encoder_id * NUM_DIRECTIONS + DirectionIndex(clockwise)]

nvm_dynamic_keymap_update_encoder(e, layer, encoder_id, clockwise, keycode) ==
    IF layer >= DYNAMIC_KEYMAP_LAYER_COUNT \/ encoder_id >= NUM_ENCODERS
    THEN e
    ELSE LET written == [e EXCEPT
                 !.cache[layer][encoder_id * NUM_DIRECTIONS + DirectionIndex(clockwise)] =
                     keycode]
             marked == set_encodermap_altered(written, layer, encoder_id, clockwise,
                           keycode # keycode_at_encodermap_location_raw(layer, encoder_id,
                                                                        clockwise))
         IN  [marked EXCEPT !.dirty = @ \cup {layer}]

\* nvm_dynamic_encodermap_reset_cache_layer_to_raw for a layer the arrays
\* have: cache[layer][j][k] = keycode_at_encodermap_location_raw(layer, j, k),
\* the direction index k being passed where the callee takes bool clockwise
nvm_dynamic_encodermap_reset_cache_layer_to_raw(e, layer) ==
    [e EXCEPT
        !.cache[layer] = [i \in Positions |->
            keycode_at_encodermap_location_raw(layer, i \div NUM_DIRECTIONS,
                                               (i % NUM_DIRECTIONS) # 0)],
        !.altered_count[layer] = 0,
        !.altered_keys[layer] = {}]

RECURSIVE ResetEncoderLayersFrom(_, _)
ResetEncoderLayersFrom(e, i) ==
    IF i < DYNAMIC_KEYMAP_LAYER_COUNT
    THEN ResetEncoderLayersFrom(nvm_dynamic_encodermap_reset_cache_layer_to_raw(e, i), i + 1)
    ELSE e

nvm_dynamic_encodermap_reset_cache_to_raw(e) == ResetEncoderLayersFrom(e, 0)

\* the part of nvm_dynamic_keymap_erase that concerns the encoder map: the
\* directory layers/ is removed with the layers/encNN files in it, and the
\* encoder cache is reset
EraseEncoderMap(e) ==
    nvm_dynamic_encodermap_reset_cache_to_raw(
        [e EXCEPT !.files = [l \in Layers |-> NoFile]])

RECURSIVE FillEncoderOverrides(_, _, _, _)
FillEncoderOverrides(e, layer, pos, idx) ==
    IF pos >= NUM_ENCODERS * NUM_DIRECTIONS THEN e
    ELSE IF is_encodermap_altered(e, layer, pos \div NUM_DIRECTIONS,
                                  (pos % NUM_DIRECTIONS) = ENCODER_ARRAYINDEX_CW)
    THEN FillEncoderOverrides(
             [e EXCEPT !.scratch.words =
                 [i \in ScratchWords |->
                     IF i = 2 * idx
                     THEN (pos \div NUM_DIRECTIONS) + 256 * (pos % NUM_DIRECTIONS)
                     ELSE IF i = 2 * idx + 1 THEN e.cache[layer][pos]
                     ELSE @[i]]],
             layer, pos + 1, idx + 1)
    ELSE FillEncoderOverrides(e, layer, pos + 1, idx)

\* one iteration of the layer loop of nvm_dynamic_encodermap_save
SaveEncoderLayer(e, layer) ==
    IF layer \notin e.dirty THEN e
    ELSE IF e.altered_count[layer] = 0
    THEN [e EXCEPT !.files[layer] = DeleteFile(@, "none"),
                   !.submitted[layer] = [op |-> "delete"]]
    ELSE IF NUM_ENCODERS * NUM_DIRECTIONS * 2 <= 4 * e.altered_count[layer]
    THEN SubmitScratch(
             [e EXCEPT !.scratch.write_mode = 0,
                       !.scratch.words = [i \in ScratchWords |->
                           IF i \in Positions THEN e.cache[layer][i] ELSE @[i]]],
             layer, NUM_ENCODERS * NUM_DIRECTIONS, "none")
    ELSE SubmitScratch(
             FillEncoderOverrides([e EXCEPT !.scratch.write_mode = 1], layer, 0, 0),
             layer, 2 * e.altered_count[layer], "none")

RECURSIVE SaveEncoderLayersFrom(_, _)
SaveEncoderLayersFrom(e, layer) ==
    IF layer < LayerStateBits
    THEN SaveEncoderLayersFrom(SaveEncoderLayer(e, layer), layer + 1)
    ELSE e

nvm_dynamic_encodermap_save(e) ==
    IF e.dirty = {} THEN e
    ELSE [SaveEncoderLayersFrom(e, 0) EXCEPT !.dirty = {}]

RECURSIVE ApplyEncoderFullFrom(_, _, _)
ApplyEncoderFullFrom(e, layer, pos) ==
    IF pos >= NUM_ENCODERS * NUM_DIRECTIONS THEN e
    ELSE ApplyEncoderFullFrom(
             nvm_dynamic_keymap_update_encoder(e, layer, pos \div NUM_DIRECTIONS,
                 (pos % NUM_DIRECTIONS) = ENCODER_ARRAYINDEX_CW, e.scratch.words[pos]),
             layer, pos + 1)

RECURSIVE ApplyEncoderOverridesFrom(_, _, _, _)
ApplyEncoderOverridesFrom(e, layer, j, count) ==
    IF j >= count THEN e
    ELSE ApplyEncoderOverridesFrom(
             nvm_dynamic_keymap_update_encoder(e, layer, e.scratch.words[2 * j] % 256,
                 (e.scratch.words[2 * j] \div 256) = ENCODER_ARRAYINDEX_CW,
                 e.scratch.words[2 * j + 1]),
             layer, j + 1, count)

\* one iteration of the layer loop of nvm_dynamic_encodermap_load, for a layer
\* the arrays have; the filesystem suffers no fault here
LoadEncoderLayer(e, layer) ==
    IF e.files[layer] = NoFile
    THEN nvm_dynamic_encodermap_reset_cache_layer_to_raw(e, layer)
    ELSE \* bytes_read is 1 + 2 * Len(file.words)
         LET read == ReadIntoScratch(
                         nvm_dynamic_encodermap_reset_cache_layer_to_raw(e, layer),
                         e.files[layer])
         IN  IF read.scratch.write_mode = 0
             THEN ApplyEncoderFullFrom(read, layer, 0)
             ELSE ApplyEncoderOverridesFrom(read, layer, 0,
                      (2 * Len(e.files[layer].words)) \div 4)

RECURSIVE LoadEncoderLayersFrom(_, _)
LoadEncoderLayersFrom(e, layer) ==
    IF layer < DYNAMIC_KEYMAP_LAYER_COUNT
    THEN LoadEncoderLayersFrom(LoadEncoderLayer(e, layer), layer + 1)
    ELSE e

\* like the keymap load, the loop goes on to sizeof(layer_state_t) * 8 and
\* resets layers the encoder arrays do not have; the outcomes kept are the
\* same, on the encoder arrays
ResetEncoderOutOfBounds(e, outcome) ==
    IF outcome.hit = "altered_keys"
    THEN [e EXCEPT !.altered_keys[outcome.layer] = {}]
    ELSE IF outcome.hit = "cache"
    THEN [e EXCEPT !.cache[outcome.layer] = [i \in Positions |-> 0]]
    ELSE e

nvm_dynamic_encodermap_load(e, outcome) ==
    IF LayerStateBits > DYNAMIC_KEYMAP_LAYER_COUNT
    THEN ResetEncoderOutOfBounds(LoadEncoderLayersFrom(e, 0), outcome)
    ELSE LoadEncoderLayersFrom(e, 0)

SetEncRam(e) ==
    /\ dynamic_encodermap_layer_cache' = e.cache
    /\ dynamic_encodermap_altered_keys' = e.altered_keys
    /\ dynamic_encodermap_altered_count' = e.altered_count
    /\ dynamic_encodermap_layer_dirty' = e.dirty
    /\ encoder_files' = e.files

EncStatics ==
    /\ dynamic_encodermap_layer_cache = [l \in Layers |-> [i \in Positions |-> 0]]
    /\ dynamic_encodermap_altered_keys = [l \in Layers |-> {}]
    /\ dynamic_encodermap_altered_count = [l \in Layers |-> 0]
    /\ dynamic_encodermap_layer_dirty = {}
    /\ encoder_files = [l \in Layers |-> NoFile]

(***************************************************************************)
(* The macro store: one buffer of NUL-terminated macros, split into the    *)
(* files macros/NN by save and put together again by load.  Offsets are    *)
(* taken inside the buffer (offset <= sizeof(dynamic_macro_buffer)), where *)
(* the size clamp of the buffer functions is defined; the filesystem       *)
(* suffers no fault here.                                                  *)
(***************************************************************************)
MacroIndexes == 0..(MacroBufferSize - 1)
MacroBytes == 0..MaxMacroByte

MacState ==
    [altered |-> dynamic_macro_altered,
     buffer |-> dynamic_macro_buffer,
     files |-> macro_files,
     \* per call: load stored bytes beyond the end of the buffer
     overrun |-> FALSE]

\* if (offset + size >= sizeof(dynamic_macro_buffer)) size = sizeof(...) - offset
MacroClamp(offset, size) ==
    IF offset + size >= MacroBufferSize THEN MacroBufferSize - offset ELSE size

\* what nvm_dynamic_keymap_macro_read_buffer leaves in data[0..size-1]
nvm_dynamic_keymap_macro_read_buffer(m, offset, size) ==
    [i \in 1..size |->
        IF i <= MacroClamp(offset, size) THEN m.buffer[offset + i - 1] ELSE 0]

\* An update that would copy and raise the flag without comparing first; the
\* code compares with memcmp.
MacroUpdateWithoutCompare(m, offset, size, data) ==
    LET n == MacroClamp(offset, size)
    IN  [m EXCEPT
            !.buffer = [j \in MacroIndexes |->
                IF j >= offset /\ j < offset + n THEN data[j - offset + 1] ELSE @[j]],
            !.altered = TRUE]

nvm_dynamic_keymap_macro_update_buffer(m, offset, size, data) ==
    LET n == MacroClamp(offset, size)
    IN  IF \E i \in 1..n : m.buffer[offset + i - 1] # data[i]
        THEN [m EXCEPT
                 !.buffer = [j \in MacroIndexes |->
                     IF j >= offset /\ j < offset + n THEN data[j - offset + 1] ELSE @[j]],
                 !.altered = TRUE]
        ELSE m

\* fs_rmdir("macros", true); fs_mkdir("macros")
nvm_dynamic_keymap_macro_erase(m) ==
    [m EXCEPT !.files = [n \in MacroIndexes |-> NoFile]]

nvm_dynamic_keymap_macro_reset(m) ==
    [nvm_dynamic_keymap_macro_erase(m) EXCEPT
        !.buffer = [j \in MacroIndexes |-> 0],
        !.altered = FALSE]

\* fs_update_block on a file of raw bytes, without fault: the write is skipped
\* when the first size bytes of the existing file equal the data
UpdateMacroFile(file, bytes) ==
    IF /\ file # NoFile
       /\ Len(file.bytes) >= Len(bytes)
       /\ SubSeq(file.bytes, 1, Len(bytes)) = bytes
    THEN file
    ELSE [bytes |-> bytes]

\* the inner loop of save: the first index from macro_start on that holds 0,
\* or the end of the buffer
RECURSIVE MacroEnd(_, _)
MacroEnd(m, macro_end) ==
    IF macro_end < MacroBufferSize /\ m.buffer[macro_end] # 0
    THEN MacroEnd(m, macro_end + 1)
    ELSE macro_end

RECURSIVE SaveMacrosFrom(_, _, _)
SaveMacrosFrom(m, n, macro_start) ==
    IF macro_start >= MacroBufferSize THEN m
    ELSE LET macro_end == MacroEnd(m, macro_start)
         IN  SaveMacrosFrom(
                 IF macro_end - macro_start > 0
                 THEN [m EXCEPT !.files[n] = UpdateMacroFile(@,
                          [i \in 1..(macro_end - macro_start) |->
                              m.buffer[macro_start + i - 1]])]
                 ELSE m,
                 n + 1, macro_end + 1)

nvm_dynamic_keymap_macro_save(m) ==
    IF m.altered
    THEN [SaveMacrosFrom(m, 0, 0) EXCEPT !.altered = FALSE]
    ELSE m

\* The loop of load.  ptr + max_count is the size of the buffer until a file
\* fills all that is left: then ptr goes one past the end and max_count wraps
\* to SIZE_MAX (past_end), and the next file is read to an address outside the
\* buffer.  No file macros/NN with NN >= sizeof(dynamic_macro_buffer) exists.
RECURSIVE LoadMacrosFrom(_, _, _, _)
LoadMacrosFrom(m, n, ptr, past_end) ==
    IF n >= MacroBufferSize THEN m
    ELSE IF m.files[n] = NoFile THEN m
    ELSE IF past_end
    THEN LoadMacrosFrom([m EXCEPT !.overrun = TRUE], n + 1, ptr, TRUE)
    ELSE LET max_count == MacroBufferSize - ptr
             length == Len(m.files[n].bytes)
             count == IF length < max_count THEN length ELSE max_count
         IN  IF count > 0
             THEN LoadMacrosFrom(
                      [m EXCEPT !.buffer = [j \in MacroIndexes |->
                          IF j >= ptr /\ j < ptr + count
                          THEN m.files[n].bytes[j - ptr + 1] ELSE @[j]]],
                      n + 1, ptr + count + 1, count + 1 > max_count)
             ELSE m

nvm_dynamic_keymap_macro_load(m) ==
    LoadMacrosFrom([m EXCEPT !.buffer = [j \in MacroIndexes |-> 0]], 0, 0, FALSE)

\* Where the bytes stored beyond the buffer land depends on the build: on
\* nothing of the store, or on dynamic_macro_altered (the bytes of a macro are
\* not 0, so the flag reads true).
MacroOverrunOutcomes ==
    {[hit |-> "nothing", layer |-> 0], [hit |-> "macro_altered", layer |-> 0]}

MacroOverrun(m, outcome) ==
    IF m.overrun /\ outcome.hit = "macro_altered" THEN [m EXCEPT !.altered = TRUE] ELSE m

SetMacState(m) ==
    /\ dynamic_macro_altered' = m.altered
    /\ dynamic_macro_buffer' = m.buffer
    /\ macro_files' = m.files

MacStatics ==
    /\ dynamic_macro_altered = FALSE
    /\ dynamic_macro_buffer = [j \in MacroIndexes |-> 0]
    /\ macro_files = [n \in MacroIndexes |-> NoFile]
    /\ macro_out = <<>>

(***************************************************************************)
(* The eeconfig store (nvm_eeconfig.c): one file per entry under ee/.      *)
(* A file is NoFile or [bytes |-> the sequence of its bytes].  The          *)
(* operators take and return a record e: whether ee/ exists, the files,     *)
(* the filesystem calls issued so far, and the output of the call.          *)
(***************************************************************************)
EECONFIG_MAGIC == "ee/magic"
EECONFIG_DEBUG == "ee/debug"
EECONFIG_KEYBOARD == "ee/keyboard"
EECONFIG_USER == "ee/user"
EECONFIG_KB_DATABLOCK == "ee/kb_datablock"
EECONFIG_USER_DATABLOCK == "ee/user_datablock"

EeNames == {EECONFIG_MAGIC, EECONFIG_DEBUG, EECONFIG_KEYBOARD, EECONFIG_USER,
            EECONFIG_KB_DATABLOCK, EECONFIG_USER_DATABLOCK}
EeBytes == 0..MaxEeByte

\* the builds: a keyboard data block or a user data block, each of EeBlockSize
\* bytes, and the version the build expects in ee/keyboard or ee/user
KbBuild(version) == [which |-> "kb", version |-> version]
UserBuild(version) == [which |-> "user", version |-> version]
EeVersions == {0, 1}
EeBuilds == {KbBuild(v) : v \in EeVersions} \cup {UserBuild(v) : v \in EeVersions}
EECONFIG_KB_DATA_SIZE == EeBlockSize
EECONFIG_USER_DATA_SIZE == EeBlockSize
EECONFIG_KB_DATA_VERSION == datablock.version
EECONFIG_USER_DATA_VERSION == datablock.version

EeState == [dir |-> ee_dir, files |-> ee_files, ops |-> <<>>, out |-> <<>>, ret |-> 0]

Zeros(n) == [i \in 1..n |-> 0]

\* a value as the n bytes the target stores it in (little-endian), and back
RECURSIVE LittleEndian(_, _)
LittleEndian(value, n) ==
    IF n = 0 THEN <<>> ELSE <<value % 256>> \o LittleEndian(value \div 256, n - 1)

RECURSIVE FromLittleEndian(_)
FromLittleEndian(bytes) ==
    IF bytes = <<>> THEN 0 ELSE bytes[1] + 256 * FromLittleEndian(Tail(bytes))

\* one filesystem call as the trace records it
Issued(op, name, mode) == [op |-> op, name |-> name, mode |-> mode]
Traced(e, calls) == [e EXCEPT !.ops = @ \o calls]

\* fs_chunked_data_compare on a file just opened: the first size bytes of
\* the file are read in chunks and compared with data; the file's own length
\* is not looked at
fs_chunked_data_compare(file, data) ==
    /\ Len(file.bytes) >= Len(data)
    /\ SubSeq(file.bytes, 1, Len(data)) = data

\* fs_read_block(filename, data, size): e.out is what data holds afterwards
fs_read_block(e, filename, size) ==
    IF e.files[filename] = NoFile
    THEN [Traced(e, <<Issued("open", filename, FS_READ)>>) EXCEPT !.out = Zeros(size)]
    ELSE [Traced(e, <<Issued("open", filename, FS_READ), Issued("read", filename, 0)>>)
             EXCEPT !.out = IF Len(e.files[filename].bytes) >= size
                            THEN SubSeq(e.files[filename].bytes, 1, size)
                            ELSE Zeros(size)]

\* the second half of fs_update_block: fs_open(FS_WRITE | FS_TRUNCATE) creates
\* the file when its directory exists and fails otherwise; then one fs_write
WriteBlock(e, filename, data) ==
    IF e.dir
    THEN [Traced(e, <<Issued("open", filename, FS_WRITE + FS_TRUNCATE),
                      Issued("write", filename, 0)>>)
             EXCEPT !.files[filename] = [bytes |-> data]]
    ELSE Traced(e, <<Issued("open", filename, FS_WRITE + FS_TRUNCATE)>>)

\* what fs_update_block would be if it compared the whole file
UpdateBlockComparingLength(e, filename, data) ==
    IF e.files[filename] = NoFile
    THEN WriteBlock(Traced(e, <<Issued("open", filename, FS_READ)>>), filename, data)
    ELSE IF e.files[filename].bytes = data
         THEN Traced(e, <<Issued("open", filename, FS_READ), Issued("read", filename, 0)>>)
         ELSE WriteBlock(Traced(e, <<Issued("open", filename, FS_READ),
                                     Issued("read", filename, 0)>>), filename, data)

\* fs_update_block(filename, data, size) with the calls it issues
UpdateBlock(e, filename, data) ==
    IF e.files[filename] = NoFile
    THEN WriteBlock(Traced(e, <<Issued("open", filename, FS_READ)>>), filename, data)
    ELSE IF fs_chunked_data_compare(e.files[filename], data)
         THEN Traced(e, <<Issued("open", filename, FS_READ), Issued("read", filename, 0)>>)
         ELSE WriteBlock(Traced(e, <<Issued("open", filename, FS_READ),
                                     Issued("read", filename, 0)>>), filename, data)

\* FS_RW_TYPED
fs_read_u32(e, filename) == FromLittleEndian(fs_read_block(e, filename, 4).out)
fs_read_u16(e, filename) == FromLittleEndian(fs_read_block(e, filename, 2).out)
fs_read_u8(e, filename) == FromLittleEndian(fs_read_block(e, filename, 1).out)
fs_update_u32(e, filename, value) == UpdateBlock(e, filename, LittleEndian(value, 4))
fs_update_u16(e, filename, value) == UpdateBlock(e, filename, LittleEndian(value, 2))
fs_update_u8(e, filename, value) == UpdateBlock(e, filename, LittleEndian(value, 1))

\* what erase would be without its fs_mkdir
EraseWithoutMkdir(e) ==
    [Traced(e, <<Issued("rmdir", "ee", 0)>>)
        EXCEPT !.dir = FALSE, !.files = [name \in EeNames |-> NoFile]]

\* fs_rmdir("ee", true); fs_mkdir("ee")
nvm_eeconfig_erase(e) ==
    [Traced(e, <<Issued("rmdir", "ee", 0), Issued("mkdir", "ee", 0)>>)
        EXCEPT !.dir = TRUE, !.files = [name \in EeNames |-> NoFile]]

nvm_eeconfig_is_enabled(e) == fs_read_u16(e, EECONFIG_MAGIC) = EECONFIG_MAGIC_NUMBER
nvm_eeconfig_is_disabled(e) == fs_read_u16(e, EECONFIG_MAGIC) = EECONFIG_MAGIC_NUMBER_OFF
nvm_eeconfig_enable(e) == fs_update_u16(e, EECONFIG_MAGIC, EECONFIG_MAGIC_NUMBER)
nvm_eeconfig_disable(e) ==
    fs_update_u16(nvm_eeconfig_erase(e), EECONFIG_MAGIC, EECONFIG_MAGIC_NUMBER_OFF)
nvm_eeconfig_read_debug(e) == fs_read_u8(e, EECONFIG_DEBUG)
nvm_eeconfig_update_debug(e, raw) == fs_update_u8(e, EECONFIG_DEBUG, raw)

\* fs_seek(fd, offset) followed by fs_write of data on a file of these bytes:
\* the range is overwritten, a gap before it is filled with zeros, the bytes
\* around it stay
WrittenAt(bytes, offset, data) ==
    [i \in 1..(IF Len(bytes) > offset + Len(data) THEN Len(bytes) ELSE offset + Len(data)) |->
        IF i > offset /\ i <= offset + Len(data) THEN data[i - offset]
        ELSE IF i <= Len(bytes) THEN bytes[i]
        ELSE 0]

BytesOf(file) == IF file = NoFile THEN <<>> ELSE file.bytes

\* the data block functions, the same code for the two blocks
ReadBlockFile(e, block_name, offset, length) ==
    IF e.files[block_name] = NoFile
    THEN [Traced(e, <<Issued("open", block_name, FS_READ)>>)
             EXCEPT !.out = Zeros(length), !.ret = length]
    ELSE [Traced(e, <<Issued("open", block_name, FS_READ), Issued("seek", block_name, 0),
                      Issued("read", block_name, 0)>>)
             EXCEPT !.out = IF Len(e.files[block_name].bytes) >= offset + length
                            THEN SubSeq(e.files[block_name].bytes, offset + 1, offset + length)
                            ELSE Zeros(length),
                    !.ret = length]

\* v is the store after fs_read_u32 of the version file
ReadValidated(v, block_name, version, offset, length) ==
    IF FromLittleEndian(v.out) = version
    THEN ReadBlockFile(v, block_name, offset, length)
    ELSE [v EXCEPT !.out = Zeros(length), !.ret = length]

\* what the read would be if it skipped the version check
ReadUnvalidated(e, version_name, block_name, version, offset, length) ==
    ReadBlockFile(fs_read_block(e, version_name, 4), block_name, offset, length)

ReadDatablock(e, version_name, block_name, version, offset, length) ==
    ReadValidated(fs_read_block(e, version_name, 4), block_name, version, offset, length)

\* u is the store after fs_update_u32 of the version file
WriteBlockFile(u, block_name, data, offset) ==
    IF u.dir
    THEN [Traced(u, <<Issued("open", block_name, FS_WRITE), Issued("seek", block_name, 0),
                      Issued("write", block_name, 0)>>)
             EXCEPT !.files[block_name] = [bytes |-> WrittenAt(BytesOf(@), offset, data)],
                    !.ret = Len(data)]
    ELSE [Traced(u, <<Issued("open", block_name, FS_WRITE)>>) EXCEPT !.ret = 0]

\* what the update would be if it opened the block with FS_TRUNCATE
UpdateDatablockTruncating(e, version_name, block_name, version, data, offset) ==
    WriteBlockFile([fs_update_u32(e, version_name, version)
                       EXCEPT !.files[block_name] = NoFile],
                   block_name, data, offset)

UpdateDatablock(e, version_name, block_name, version, data, offset) ==
    WriteBlockFile(fs_update_u32(e, version_name, version), block_name, data, offset)

\* fs_delete of a file
Deleted(e, name) ==
    [Traced(e, <<Issued("delete", name, 0)>>) EXCEPT !.files[name] = NoFile]

InitDatablock(e, version_name, block_name, version, size) ==
    [WriteBlockFile(Deleted(fs_update_u32(e, version_name, version), block_name),
                    block_name, <<0>>, size - 1)
        EXCEPT !.ret = 0]

nvm_eeconfig_is_kb_datablock_valid(e) ==
    fs_read_u32(e, EECONFIG_KEYBOARD) = EECONFIG_KB_DATA_VERSION
nvm_eeconfig_read_kb_datablock(e, offset, length) ==
    ReadDatablock(e, EECONFIG_KEYBOARD, EECONFIG_KB_DATABLOCK, EECONFIG_KB_DATA_VERSION,
                  offset, length)
nvm_eeconfig_update_kb_datablock(e, data, offset) ==
    UpdateDatablock(e, EECONFIG_KEYBOARD, EECONFIG_KB_DATABLOCK, EECONFIG_KB_DATA_VERSION,
                    data, offset)
nvm_eeconfig_init_kb_datablock(e) ==
    InitDatablock(e, EECONFIG_KEYBOARD, EECONFIG_KB_DATABLOCK, EECONFIG_KB_DATA_VERSION,
                  EECONFIG_KB_DATA_SIZE)

nvm_eeconfig_is_user_datablock_valid(e) ==
    fs_read_u32(e, EECONFIG_USER) = EECONFIG_USER_DATA_VERSION
nvm_eeconfig_read_user_datablock(e, offset, length) ==
    ReadDatablock(e, EECONFIG_USER, EECONFIG_USER_DATABLOCK, EECONFIG_USER_DATA_VERSION,
                  offset, length)
nvm_eeconfig_update_user_datablock(e, data, offset) ==
    UpdateDatablock(e, EECONFIG_USER, EECONFIG_USER_DATABLOCK, EECONFIG_USER_DATA_VERSION,
                    data, offset)
nvm_eeconfig_init_user_datablock(e) ==
    InitDatablock(e, EECONFIG_USER, EECONFIG_USER_DATABLOCK, EECONFIG_USER_DATA_VERSION,
                  EECONFIG_USER_DATA_SIZE)

\* the names and functions of the block the build has
VersionName == IF datablock.which = "kb" THEN EECONFIG_KEYBOARD ELSE EECONFIG_USER
BlockName == IF datablock.which = "kb" THEN EECONFIG_KB_DATABLOCK ELSE EECONFIG_USER_DATABLOCK

NoEeCall == [call |-> "none", ops |-> <<>>, out |-> <<>>, ret |-> 0, args |-> <<>>]

\* a freshly formatted filesystem, and no call made
EeStatics ==
    /\ ee_dir = FALSE
    /\ ee_files = [name \in EeNames |-> NoFile]
    /\ ee_last = NoEeCall
    /\ ee_ref = <<>>
    /\ datablock = KbBuild(1)

(***************************************************************************)
(* The block device callbacks of littlefs (part_007).  lfs_block_t,         *)
(* lfs_off_t, lfs_size_t and the address are unsigned words of WordBits     *)
(* bits: sums and products wrap modulo WordModulus as they do in the code.  *)
(***************************************************************************)
WordModulus == 2 ^ WordBits
UINT32_MAX == WordModulus - 1
Words == 0..UINT32_MAX

\* uint32_t addition and multiplication
WrapAdd(a, b) == (a + b) % WordModulus
WrapMul(a, b) == (a * b) % WordModulus

\* the lfs_config handed to the callbacks: block_size and block_count
DeviceConfigs ==
    {[block_size |-> 1, block_count |-> UINT32_MAX],
     [block_size |-> 3, block_count |-> UINT32_MAX],
     [block_size |-> 4, block_count |-> 3]}

Invalid(ret) == [ret |-> ret, addr |-> <<>>]
Valid(addr) == [ret |-> 0, addr |-> <<addr>>]

\* the tests that follow the multiplication test, with base_addr computed
ValidateFrom(base_addr, addr, size) ==
    IF addr < base_addr THEN Invalid(LFS_ERR_INVAL)
    ELSE IF size > 0 /\ WrapAdd(addr, size) < addr THEN Invalid(LFS_ERR_INVAL)
    ELSE Valid(addr)

\* what the function would be without the test before the multiplication
ValidateWithoutProductTest(c, block, off, size) ==
    IF block >= c.block_count THEN Invalid(LFS_ERR_INVAL)
    ELSE ValidateFrom(WrapMul(block, c.block_size),
                      WrapAdd(WrapMul(block, c.block_size), off), size)

\* fs_validate_block_address(c, block, off, size, &addr): the result and,
\* when it is written, *addr_out.  off is unsigned, so off < 0 never holds.
fs_validate_block_address(c, block, off, size) ==
    IF block >= c.block_count THEN Invalid(LFS_ERR_INVAL)
    ELSE IF off < 0 THEN Invalid(LFS_ERR_INVAL)
    ELSE IF block > UINT32_MAX \div c.block_size THEN Invalid(LFS_ERR_INVAL)
    ELSE ValidateFrom(WrapMul(block, c.block_size),
                      WrapAdd(WrapMul(block, c.block_size), off), size)

FlashStatuses == {"FLASH_STATUS_SUCCESS", "FLASH_STATUS_BAD_ADDRESS", "FLASH_STATUS_TIMEOUT",
                  "FLASH_STATUS_BUSY", "FLASH_STATUS_ERROR"}

fs_flash_status_to_lfs_error(status) ==
    IF status = "FLASH_STATUS_SUCCESS" THEN 0
    ELSE IF status = "FLASH_STATUS_BAD_ADDRESS" THEN LFS_ERR_INVAL
    ELSE LFS_ERR_IO

\* validated is the result of fs_validate_block_address; status is what the
\* flash driver answers when it is called with the address
AfterValidation(validated, status) ==
    IF validated.ret < 0 THEN validated
    ELSE [validated EXCEPT !.ret = fs_flash_status_to_lfs_error(status)]

\* fs_device_read and fs_device_prog: the same tests around another driver call
fs_device_read(c, block, off, buffer_is_null, size, status) ==
    IF buffer_is_null \/ size = 0 THEN Invalid(LFS_ERR_INVAL)
    ELSE AfterValidation(fs_validate_block_address(c, block, off, size), status)

fs_device_prog(c, block, off, buffer_is_null, size, status) ==
    IF buffer_is_null \/ size = 0 THEN Invalid(LFS_ERR_INVAL)
    ELSE AfterValidation(fs_validate_block_address(c, block, off, size), status)

fs_device_erase(c, block, status) ==
    AfterValidation(fs_validate_block_address(c, block, 0, 0), status)

NoRequest == [c |-> [block_size |-> 1, block_count |-> 1], block |-> 0, off |-> 0, size |-> 0]
NoCallback == [call |-> "none", ret |-> 0, addr |-> <<>>, buffer_is_null |-> FALSE]

DevStatics == dev_in = NoRequest /\ dev_out = NoCallback

(***************************************************************************)
(* The SFDP parameter table (sfdp_flash.c), second dword.  A uint32_t is    *)
(* kept as two 16-bit halves, [hi, lo], so that all its values can be       *)
(* written down.                                                            *)
(***************************************************************************)
HalfBase == 2 ^ 16
ToWord(n) == [hi |-> n \div HalfBase, lo |-> n % HalfBase]
Pow2Word(k) == IF k < 16 THEN [hi |-> 0, lo |-> 2 ^ k] ELSE [hi |-> 2 ^ (k - 16), lo |-> 0]

\* w / 8 on a uint32_t
DivideBy8(w) == [hi |-> w.hi \div 8, lo |-> ((w.hi % 8) * HalfBase + w.lo) \div 8]

\* 1 << density.  Both operands are int: a shift by 32 or more is undefined,
\* and the targets give 0 (shift by register, ARM) or shift by the low five
\* bits of the count (RISC-V, x86).
ShiftOne(density) ==
    IF density < 32
    THEN {Pow2Word(density)}
    ELSE {ToWord(0), Pow2Word(density % 32)}

\* bits of case 2
DecodedBits(density, is_high_density) ==
    IF is_high_density THEN ShiftOne(density) ELSE {ToWord(density + 1)}

\* case 2 of sfdp_parse_parameter_table: the values of bits and bytes
DecodeDensity(density, is_high_density) ==
    {[bits |-> bits, bytes |-> DivideBy8(bits)] :
        bits \in DecodedBits(density, is_high_density)}

NoDword == [density |-> 0, is_high_density |-> FALSE]
NotDecoded == [bits |-> <<>>, bytes |-> <<>>]
SfdpStatics == sfdp_in = NoDword /\ sfdp_out = NotDecoded

(***************************************************************************)
(* The Konami code (process_record_konami_code).  A keycode is the range    *)
(* it lies in and, for the ranges that carry one, its basic keycode.        *)
(***************************************************************************)
konami_code == <<"KC_UP", "KC_UP", "KC_DOWN", "KC_DOWN", "KC_LEFT", "KC_RIGHT",
                 "KC_LEFT", "KC_RIGHT", "KC_B", "KC_A", "KC_ENTER">>

Basic(kc) == [range |-> "basic", kc |-> kc]
BasicKeycodes == {"KC_UP", "KC_DOWN", "KC_LEFT", "KC_RIGHT", "KC_B", "KC_A", "KC_ENTER",
                  "KC_KP_ENTER", "KC_RETURN", "QK_SPACE_CADET_RIGHT_SHIFT_ENTER", "KC_X"}
\* the ranges whose release the switch ignores
IgnoredRanges == {"QK_MOMENTARY", "QK_DEF_LAYER", "QK_TOGGLE_LAYER", "QK_ONE_SHOT_LAYER",
                  "QK_LAYER_TAP_TOGGLE"}
\* the other layer-switching ranges of QMK: TO(layer) and LM(layer, mod)
OtherLayerRanges == {"QK_TO", "QK_LAYER_MOD"}
\* the ranges that wrap a basic keycode
TapRanges == {"QK_MOD_TAP", "QK_LAYER_TAP", "QK_SWAP_HANDS"}
TappedKeycodes == {"KC_UP", "KC_ENTER", "KC_X"}

KonamiKeycodes ==
    {Basic(kc) : kc \in BasicKeycodes}
        \cup {[range |-> range, kc |-> "none"] : range \in IgnoredRanges \cup OtherLayerRanges}
        \cup {[range |-> range, kc |-> kc] : range \in TapRanges, kc \in TappedKeycodes}

KonamiEvents == [keycode : KonamiKeycodes, pressed : BOOLEAN, tap_count : {0, 1}]

Progress(index, called) == [index |-> index, called |-> called]

\* the cases KC_UP .. KC_ENTER of the switch
MatchKey(index, kc) ==
    IF kc = konami_code[index + 1]
    THEN IF index + 1 = Len(konami_code)
         THEN Progress(0, TRUE)
         ELSE Progress(index + 1, FALSE)
    ELSE Progress(0, FALSE)

\* process_record_konami_code(keycode, record): the new konami_index and
\* whether konami_code_handler was called
RECURSIVE process_record_konami_code(_, _, _)
process_record_konami_code(index, keycode, record) ==
    IF record.pressed THEN Progress(index, FALSE)
    ELSE IF keycode.range \in IgnoredRanges THEN Progress(index, FALSE)
    ELSE IF keycode.range = "QK_MOD_TAP"
         THEN process_record_konami_code(index, Basic(keycode.kc), record)
    ELSE IF keycode.range = "QK_LAYER_TAP"
         THEN IF record.tap_count # 0
              THEN process_record_konami_code(index, Basic(keycode.kc), record)
              ELSE Progress(index, FALSE)
    ELSE IF keycode.range = "QK_SWAP_HANDS"
         THEN process_record_konami_code(index, Basic(keycode.kc), record)
    ELSE IF keycode.range = "basic"
              /\ keycode.kc \in {"KC_KP_ENTER", "KC_RETURN", "QK_SPACE_CADET_RIGHT_SHIFT_ENTER"}
         THEN process_record_konami_code(index, Basic("KC_ENTER"), record)
    ELSE IF keycode.range = "basic"
              /\ keycode.kc \in {"KC_UP", "KC_DOWN", "KC_LEFT", "KC_RIGHT", "KC_B", "KC_A",
                                  "KC_ENTER"}
         THEN MatchKey(index, keycode.kc)
    ELSE Progress(0, FALSE)

NoKeyEvent == [keycode |-> Basic("KC_X"), pressed |-> TRUE, tap_count |-> 0]
KonamiStatics ==
    /\ konami_index = 0
    /\ konami_event = NoKeyEvent
    /\ konami_before = 0
    /\ handler_called = FALSE
    /\ konami_seen = 0
    /\ konami_typed = 0

(***************************************************************************)
(* The keycode lookup (part_001).  The generated table is a sorted list of  *)
(* names: keycode_offsets[i] holds the value and the offset of name i in    *)
(* keycode_name_array, which is the names one after the other with nothing  *)
(* between them.  Indexes are 0-based as in the code.                       *)
(***************************************************************************)
SizeModulus == 2 ^ SizeBits

RECURSIVE Concatenated(_)
Concatenated(names) ==
    IF names = <<>> THEN <<>> ELSE Head(names) \o Concatenated(Tail(names))

keycode_name_array == Concatenated(keycode_names)
KeycodeCount == Len(keycode_names)
\* the value of entry i: never 0, the value that means "not found"
KeycodeValue(i) == 16 + i
keycode_offsets(i) ==
    [value |-> KeycodeValue(i),
     name_offset |-> Len(Concatenated(SubSeq(keycode_names, 1, i)))]

\* byte i (0-based) of the C string name: its characters, then the NUL
NameByte(name, i) == IF i < Len(name) THEN name[i + 1] ELSE 0

\* memcmp(name, keycode_name_array + offset, n), as -1, 0 or 1.  The entry
\* holds no NUL, so the comparison ends at the NUL of name at the latest.
RECURSIVE MemcmpFrom(_, _, _, _)
MemcmpFrom(name, offset, n, i) ==
    IF i = n THEN 0
    ELSE IF NameByte(name, i) < keycode_name_array[offset + i + 1] THEN -1
    ELSE IF NameByte(name, i) > keycode_name_array[offset + i + 1] THEN 1
    ELSE MemcmpFrom(name, offset, n, i + 1)

\* string_len of the entry at mid: up to the next entry when mid + 1 < end,
\* up to the end of keycode_name_array otherwise
StringLen(mid, end) ==
    IF mid + 1 < end
    THEN keycode_offsets(mid + 1).name_offset - keycode_offsets(mid).name_offset
    ELSE Len(keycode_name_array) - keycode_offsets(mid).name_offset

Found(value, indexed) == [status |-> "found", value |-> value, indexed |-> indexed]
NotFound(indexed) == [status |-> "not found", value |-> 0, indexed |-> indexed]
OutOfBounds(indexed) == [status |-> "out of bounds", value |-> 0, indexed |-> indexed]

\* The loop of lookup_keycode_by_name.  indexed is the set of indexes at
\* which keycode_offsets was read; the loop is followed until it returns or
\* reads keycode_offsets outside the table.
RECURSIVE SearchFrom(_, _, _, _, _)
SearchFrom(name, end, low, high, indexed) ==
    IF low > high THEN NotFound(indexed)
    ELSE IF (low + high) \div 2 >= KeycodeCount
         THEN OutOfBounds(indexed \cup {(low + high) \div 2})
    ELSE IF /\ MemcmpFrom(name, keycode_offsets((low + high) \div 2).name_offset,
                          StringLen((low + high) \div 2, end), 0) = 0
            /\ Len(name) = StringLen((low + high) \div 2, end)
         THEN Found(keycode_offsets((low + high) \div 2).value,
                    indexed \cup {(low + high) \div 2})
    ELSE IF MemcmpFrom(name, keycode_offsets((low + high) \div 2).name_offset,
                       StringLen((low + high) \div 2, end), 0) < 0
         THEN SearchFrom(name, end, low, ((low + high) \div 2 - 1) % SizeModulus,
                         indexed \cup {(low + high) \div 2})
    ELSE SearchFrom(name, end, (low + high) \div 2 + 1, high,
                    indexed \cup {(low + high) \div 2})

lookup_keycode_by_name(name) ==
    SearchFrom(name, KeycodeCount - 1, 0, KeycodeCount - 1, {})

\* What the caller sees.  A read outside keycode_offsets is undefined: the
\* call may fault, or go on with whatever it read and return 0 or any value.
LookupOutcomes(result) ==
    IF result.status = "out of bounds"
    THEN {[returned |-> FALSE, value |-> 0, indexed |-> result.indexed],
          [returned |-> TRUE, value |-> 0, indexed |-> result.indexed],
          [returned |-> TRUE, value |-> KeycodeValue(0), indexed |-> result.indexed]}
    ELSE {[returned |-> TRUE, value |-> result.value, indexed |-> result.indexed]}

NotLookedUp == [returned |-> FALSE, value |-> 0, indexed |-> {-1}]
LookupStatics ==
    /\ keycode_names = <<<<1>>>>
    /\ lookup_name = <<>>
    /\ lookup_out = NotLookedUp

\* The execution contexts of the scheduling model: the main keyboard loop and
\* the housekeeping task.
Contexts == {"main", "housekeeping"}
IdleContext == [op |-> "none", pc |-> "idle", layer |-> 0, nwords |-> 0, built |-> <<>>]
ContextStatics == ctx = [c \in Contexts |-> IdleContext]

NoEofQuestion == [handles |-> <<>>, mount_count |-> 0, fd |-> 0, fault |-> "none"]
NoEofAnswer == [answered |-> FALSE, handles |-> <<>>, ret |-> TRUE]
EofStatics == eof_in = NoEofQuestion /\ eof_out = NoEofAnswer

NoRmdir == [called |-> FALSE, path |-> <<>>, recursive |-> FALSE, ret |-> FALSE,
            tree |-> <<>>, fs_handles |-> <<>>, mount_count |-> 0, levels |-> 0]
\* no flash part is probed: the descriptor is all zeroes
NoDescriptor == [signature |-> 0, reserved_0xFF |-> 0, header_count |-> 0, params |-> <<>>]
\* sfdp_runtime_t sfdp: zero-initialised
SfdpRuntime == [was_checked |-> FALSE, is_supported |-> FALSE]
\* the SPI bus before a call: no transaction open, no transfer made
IdleBus(fail_at) ==
    [active |-> FALSE, calls |-> 0, fail_at |-> fail_at, failed |-> FALSE,
     started |-> 0, stopped |-> 0, reads |-> <<>>]
NoProbe == [called |-> FALSE, ret |-> FALSE, bus |-> IdleBus(-1)]
ProbeStatics == sfdp_dev = NoDescriptor /\ sfdp = SfdpRuntime /\ sfdp_call = NoProbe
TailStatics == rmdir_last = NoRmdir /\ ProbeStatics

LateStatics == ContextStatics /\ EofStatics /\ TailStatics

MoreStatics ==
    EeStatics /\ DevStatics /\ SfdpStatics /\ KonamiStatics /\ LookupStatics /\ LateStatics

\* the statics as the C runtime zero-initialises them, and no layer files
StoreStatics ==
    /\ dynamic_keymap_layer_cache = [l \in Layers |-> [i \in Keys |-> 0]]
    /\ dynamic_keymap_altered_keys = [l \in Layers |-> {}]
    /\ dynamic_keymap_altered_count = [l \in Layers |-> 0]
    /\ dynamic_keymap_layer_dirty = {}
    /\ dynamic_keymap_scratch = ZeroScratch
    /\ layer_files = [l \in Layers |-> NoFile]
    /\ store_loaded = FALSE
    /\ store_clobbered = FALSE
    /\ io_faulted = FALSE
    /\ oob_layout = UnknownLayout
    /\ EncStatics
    /\ MacStatics

KmStatics == StoreStatics /\ MoreStatics

KmStart == keyboard = NarrowKeyboard /\ KmStatics

(***************************************************************************)
(* Paths are C strings: sequences of characters ended by NUL.              *)
(***************************************************************************)
NUL == "NUL"

\* path[i] of the C code, 0-based; the terminator sits at index Len(path)
CharAt(path, i) == IF i < Len(path) THEN path[i + 1] ELSE NUL

\* the inner loops `while (path[pos] && path[pos] != '/') pos++`
RECURSIVE SegmentEnd(_, _)
SegmentEnd(path, pos) ==
    IF CharAt(path, pos) # NUL /\ CharAt(path, pos) # "/"
    THEN SegmentEnd(path, pos + 1)
    ELSE pos

\* the outer loop of fs_is_path_safe, entered with pos
RECURSIVE PathSafeFrom(_, _)
PathSafeFrom(path, segment_start) ==
    IF CharAt(path, segment_start) = NUL THEN TRUE
    ELSE LET pos == SegmentEnd(path, segment_start)
             segment_len == pos - segment_start
         IN  IF \/ (segment_len = 1 /\ CharAt(path, segment_start) = ".")
                \/ (segment_len = 2 /\ CharAt(path, segment_start) = "."
                                    /\ CharAt(path, segment_start + 1) = ".")
             THEN FALSE
             ELSE IF CharAt(path, pos) = "/"
                  THEN IF CharAt(path, pos + 1) = "/"
                       THEN FALSE
                       ELSE PathSafeFrom(path, pos + 1)
                  ELSE PathSafeFrom(path, pos)

fs_is_path_safe(path) ==
    PathSafeFrom(path, IF CharAt(path, 0) = "/" THEN 1 ELSE 0)

\* variant: a depth check that only refuses the empty path
DepthValidUnlimited(path, max_depth) == CharAt(path, 0) # NUL

\* the counting loop of fs_is_path_depth_valid
RECURSIVE DepthValidFrom(_, _, _, _)
DepthValidFrom(path, p, depth, max_depth) ==
    IF CharAt(path, p) = NUL THEN TRUE
    ELSE IF CharAt(path, p) # "/"
         THEN IF depth + 1 > max_depth
              THEN FALSE
              ELSE DepthValidFrom(path, SegmentEnd(path, p), depth + 1, max_depth)
         ELSE DepthValidFrom(path, p + 1, depth, max_depth)

fs_is_path_depth_valid(path, max_depth) ==
    IF CharAt(path, 0) = NUL THEN FALSE
    ELSE DepthValidFrom(path, IF CharAt(path, 0) = "/" THEN 1 ELSE 0, 0, max_depth)

\* variant: a gate that checks the segments but not the depth
PathGateSafeOnly(path, max_depth) == fs_is_path_safe(path)

\* the gate at the top of fs_mkdir, fs_rmdir, fs_opendir (max_depth =
\* FS_MAX_DIR_DEPTH) and fs_exists, fs_delete, fs_open (FS_MAX_FILE_DEPTH)
PathGate(path, max_depth) ==
    fs_is_path_safe(path) /\ fs_is_path_depth_valid(path, max_depth)

(***************************************************************************)
(* Reference reading of a path, independent of the validators: its         *)
(* segments are the maximal runs of characters other than '/'.             *)
(***************************************************************************)
RECURSIVE SplitFrom(_, _, _)
SplitFrom(path, i, acc) ==
    IF i > Len(path)
    THEN IF acc = <<>> THEN <<>> ELSE <<acc>>
    ELSE IF path[i] = "/"
         THEN (IF acc = <<>> THEN <<>> ELSE <<acc>>) \o SplitFrom(path, i + 1, <<>>)
         ELSE SplitFrom(path, i + 1, Append(acc, path[i]))

Segments(path) == SplitFrom(path, 1, <<>>)

HasDotSegment(path) ==
    \E i \in 1..Len(Segments(path)) :
        Segments(path)[i] \in {<<".">>, <<".", ".">>}

HasAdjacentSlashes(path) ==
    \E i \in 1..(Len(path) - 1) : path[i] = "/" /\ path[i + 1] = "/"

(***************************************************************************)
(* Inputs enumerated for the validators.                                   *)
(***************************************************************************)
PathAlphabet == {"/", ".", "a"}

StringsUpTo(n) == UNION {[1..k -> PathAlphabet] : k \in 0..n}

\* the paths named by the specification's path-validator property
SpecExamplePaths ==
    { <<>>,
      <<"/">>,
      <<"/", "a", "/", ".", "/", "b">>,
      <<"/", "a", "/", ".", ".", "/", "b">>,
      <<"/", "a", "/", "/", "b">>,
      <<"/", "a", "/", "b", "/", "c", "/", "d">> }

PathInputs == StringsUpTo(MaxPathLen) \cup SpecExamplePaths

NoOutput == [kind |-> "none"]

PathInit ==
    /\ path_in \in PathInputs
    /\ depth_in \in 0..MaxDepthArg
    /\ path_out = NoOutput

\* fs_is_path_safe(path) && fs_is_path_depth_valid(path, max_depth)
PathValidate ==
    /\ path_out.kind = "none"
    /\ path_out' = [kind |-> "validate",
                    safe |-> fs_is_path_safe(path_in),
                    depth_valid |-> fs_is_path_depth_valid(path_in, depth_in)]
    /\ UNCHANGED <<path_in, depth_in, fsVars, seqVars, mtVars, kmVars>>

\* the gate of fs_mkdir: a path that fails it makes fs_mkdir return false
PathMkdirGate ==
    /\ path_out.kind = "none"
    /\ path_out' = [kind |-> "mkdir",
                    rejected |-> ~PathGate(path_in, FS_MAX_DIR_DEPTH)]
    /\ UNCHANGED <<path_in, depth_in, fsVars, seqVars, mtVars, kmVars>>

(***************************************************************************)
(* The backing filesystem (littlefs) as the code uses it: a tree of named  *)
(* nodes.  A node is the sequence of its path segments; the root is <<>>.  *)
(* Each operator returns the error code and the tree after the call.       *)
(***************************************************************************)
Parent(node) == SubSeq(node, 1, Len(node) - 1)

IsRoot(node) == node = <<>>

IsDir(tr, node) == IsRoot(node) \/ (node \in DOMAIN tr /\ tr[node] = "dir")

IsFile(tr, node) == node \in DOMAIN tr /\ tr[node] = "file"

NodeExists(tr, node) == IsRoot(node) \/ node \in DOMAIN tr

Children(tr, node) == {n \in DOMAIN tr : Len(n) = Len(node) + 1 /\ Parent(n) = node}

AddNode(tr, node, kind) ==
    [n \in DOMAIN tr \cup {node} |-> IF n = node THEN kind ELSE tr[n]]

RemoveNode(tr, node) == [n \in DOMAIN tr \ {node} |-> tr[n]]

EmptyTree == [n \in {} |-> "dir"]

lfs_mount(s) == IF s.disk = "formatted" THEN LFS_ERR_OK ELSE LFS_ERR_INVAL

lfs_format(s) ==
    IF s.disk = "unformattable" THEN [err |-> LFS_ERR_IO, disk |-> s.disk, tree |-> s.tree]
    ELSE IF s.disk = "unmountable" THEN [err |-> LFS_ERR_OK, disk |-> s.disk, tree |-> EmptyTree]
    ELSE [err |-> LFS_ERR_OK, disk |-> "formatted", tree |-> EmptyTree]

lfs_stat(tr, path) ==
    IF NodeExists(tr, Segments(path)) THEN LFS_ERR_OK ELSE LFS_ERR_NOENT

lfs_mkdir(tr, path) ==
    LET node == Segments(path) IN
    IF NodeExists(tr, node) THEN [err |-> LFS_ERR_EXIST, tree |-> tr]
    ELSE IF ~NodeExists(tr, Parent(node)) THEN [err |-> LFS_ERR_NOENT, tree |-> tr]
    ELSE IF ~IsDir(tr, Parent(node)) THEN [err |-> LFS_ERR_NOTDIR, tree |-> tr]
    ELSE [err |-> LFS_ERR_OK, tree |-> AddNode(tr, node, "dir")]

lfs_remove(tr, path) ==
    LET node == Segments(path) IN
    IF IsRoot(node) THEN [err |-> LFS_ERR_INVAL, tree |-> tr]
    ELSE IF ~NodeExists(tr, node) THEN [err |-> LFS_ERR_NOENT, tree |-> tr]
    ELSE IF Children(tr, node) # {} THEN [err |-> LFS_ERR_NOTEMPTY, tree |-> tr]
    ELSE [err |-> LFS_ERR_OK, tree |-> RemoveNode(tr, node)]

lfs_dir_open(tr, path) ==
    LET node == Segments(path) IN
    IF IsDir(tr, node) THEN LFS_ERR_OK
    ELSE IF IsFile(tr, node) THEN LFS_ERR_NOTDIR
    ELSE LFS_ERR_NOENT

\* creat: LFS_O_CREAT is among the flags
lfs_file_opencfg(tr, path, creat) ==
    LET node == Segments(path) IN
    IF IsDir(tr, node) THEN [err |-> LFS_ERR_ISDIR, tree |-> tr]
    ELSE IF IsFile(tr, node) THEN [err |-> LFS_ERR_OK, tree |-> tr]
    ELSE IF ~creat \/ ~NodeExists(tr, Parent(node)) THEN [err |-> LFS_ERR_NOENT, tree |-> tr]
    ELSE IF ~IsDir(tr, Parent(node)) THEN [err |-> LFS_ERR_NOTDIR, tree |-> tr]
    ELSE [err |-> LFS_ERR_OK, tree |-> AddNode(tr, node, "file")]

(***************************************************************************)
(* Filesystem core, the _nolock functions.  Each takes the state s of the  *)
(* statics and the backing store and returns [s |-> state after, ret |->   *)
(* return value].                                                          *)
(***************************************************************************)
FsState ==
    [mount_count |-> mount_count, current_fd |-> current_fd,
     fs_handles |-> fs_handles, disk |-> disk, tree |-> tree, issued |-> issued,
     nesting |-> 0, overflow |-> stack_overflow, deepest |-> 0]

Slots == 0..(FS_MAX_NUM_OPEN_FDS - 1)

EmptyHandle == [fd |-> INVALID_FILESYSTEM_FD, type |-> "EMPTY"]

\* memset(fs_handles, 0, sizeof(fs_handles))
ClearedHandles == [i \in Slots |-> EmptyHandle]

OpenSlots(handles) == {i \in Slots : handles[i].type # "EMPTY"}

\* variant: a descriptor is usable whenever it is valid, in use or not
ValidFdCanBeUsed(handles, fd) == fd # INVALID_FILESYSTEM_FD /\ fd >= FIRST_VALID_FD

is_valid_fd(fd) == fd # INVALID_FILESYSTEM_FD /\ fd >= FIRST_VALID_FD

fd_can_be_used(handles, fd) ==
    /\ is_valid_fd(fd)
    /\ \A i \in Slots : handles[i].fd # fd

\* the do/while loop of allocate_fd; `seen` collects the descriptors handed out
\* since the counter last wrapped (emptied when it wraps)
\* variant: hand out the lowest descriptor not in the table
AllocateLowestFree(s) ==
    LET free == {fd \in FIRST_VALID_FD..FdCounterMax :
                    \A i \in Slots : s.fs_handles[i].fd # fd}
        low == CHOOSE fd \in free : \A other \in free : fd <= other
    IN  [current_fd |-> low, fd |-> low]

\* the do-while loop of allocate_fd: advance the rotating counter, wrapping
\* to FIRST_VALID_FD, until a usable value is found or the scan is back at `first`
RECURSIVE AllocateLoop(_, _, _)
AllocateLoop(handles, cfd, first) ==
    LET next == IF cfd = FdCounterMax THEN FIRST_VALID_FD ELSE cfd + 1
    IN  IF fd_can_be_used(handles, next)
        THEN [current_fd |-> next, fd |-> next]
        ELSE IF next = first
             THEN [current_fd |-> next, fd |-> INVALID_FILESYSTEM_FD]
             ELSE AllocateLoop(handles, next, first)

allocate_fd(s) == AllocateLoop(s.fs_handles, s.current_fd, s.current_fd)

\* a descriptor value comes round again only after the counter has passed
\* every other value, of which fewer than FS_MAX_NUM_OPEN_FDS are skipped as
\* in use: at least this many other descriptors are handed out in between
ReuseWindow == (FdCounterMax - FIRST_VALID_FD + 1) - FS_MAX_NUM_OPEN_FDS

\* the ReuseWindow most recently handed out descriptors, latest first
Remember(recent, fd) ==
    IF fd = INVALID_FILESYSTEM_FD THEN recent
    ELSE SubSeq(<<fd>> \o recent, 1,
                IF Len(recent) + 1 > ReuseWindow THEN ReuseWindow ELSE Len(recent) + 1)

fs_is_mounted_nolock(s) == s.mount_count > 0

fs_unmount_nolock(s) ==
    IF fs_is_mounted_nolock(s)
    THEN [s EXCEPT !.mount_count = @ - 1]
    ELSE s

\* while (fs_is_mounted_nolock()) fs_unmount_nolock();
UnmountAll(s) == [s EXCEPT !.mount_count = 0]

RECURSIVE fs_mount_nolock(_)
RECURSIVE fs_init_nolock(_)
RECURSIVE fs_format_nolock(_)

fs_format_nolock(s) ==
    LET s1 == UnmountAll(s)
        f == lfs_format(s1)
    IN  IF f.err < 0
        THEN [s |-> s1, ret |-> FALSE]
        ELSE fs_init_nolock([s1 EXCEPT !.disk = f.disk, !.tree = f.tree])

\* fs_device_init() clears the littlefs buffers and returns true
fs_init_nolock(s) ==
    LET s1 == UnmountAll(s)
        s2 == [s1 EXCEPT !.fs_handles = ClearedHandles]
    IN  fs_mount_nolock(s2)

\* The format that follows a failed mount ends in fs_init_nolock, which
\* mounts: the calls nest, one round deeper for every mount that fails after
\* a format.  nesting counts the rounds; past MaxNesting the stack is
\* exhausted and the call does not return.
fs_mount_nolock(s) ==
    LET counted(x) == [s |-> [x EXCEPT !.mount_count = @ + 1], ret |-> TRUE]
    IN  IF ~fs_is_mounted_nolock(s)
        THEN IF lfs_mount(s) < 0
             THEN IF s.nesting >= MaxNesting
                  THEN [s |-> [s EXCEPT !.overflow = TRUE], ret |-> FALSE]
                  ELSE LET f == fs_format_nolock([s EXCEPT !.nesting = @ + 1])
                           g == [f.s EXCEPT !.nesting = s.nesting]
                       IN  IF ~f.ret THEN [s |-> g, ret |-> FALSE]
                           ELSE IF lfs_mount(g) < 0 THEN [s |-> g, ret |-> FALSE]
                           ELSE counted(g)
             ELSE counted(s)
        ELSE counted(s)

\* FS_AUTO_MOUNT_UNMOUNT(ret_on_fail) around a body that runs to its end:
\* mount, run the body, unmount when the scope is left
AutoMountUnmount(s, ret_on_fail, Body(_)) ==
    LET m == fs_mount_nolock(s)
    IN  IF ~m.ret
        THEN [s |-> m.s, ret |-> ret_on_fail]
        ELSE LET r == Body(m.s)
             IN  [s |-> fs_unmount_nolock(r.s), ret |-> r.ret]

\* variant: an existing directory counts as a failure
MkdirFailingOnExisting(s, path) ==
    AutoMountUnmount(s, FALSE,
        LAMBDA x : LET r == lfs_mkdir(x.tree, path)
                   IN  [s |-> [x EXCEPT !.tree = r.tree], ret |-> (r.err >= 0)])

fs_mkdir_nolock(s, path) ==
    AutoMountUnmount(s, FALSE,
        LAMBDA x : LET r == lfs_mkdir(x.tree, path)
                   IN  [s |-> [x EXCEPT !.tree = r.tree],
                        ret |-> (r.err >= 0 \/ r.err = LFS_ERR_EXIST)])

fs_exists_nolock(s, path) ==
    AutoMountUnmount(s, FALSE,
        LAMBDA x : [s |-> x, ret |-> (lfs_stat(x.tree, path) >= 0)])

fs_delete_nolock(s, path) ==
    AutoMountUnmount(s, FALSE,
        LAMBDA x : LET e == fs_exists_nolock(x, path)
                   IN  IF ~e.ret
                       THEN [s |-> e.s, ret |-> TRUE]
                       ELSE LET r == lfs_remove(e.s.tree, path)
                            IN  [s |-> [e.s EXCEPT !.tree = r.tree],
                                 ret |-> (r.err >= 0 \/ r.err = LFS_ERR_NOENT)])

MinOf(S) == CHOOSE i \in S : \A j \in S : i <= j

\* FIND_FD_GET_HANDLE: the slots whose fd and type match, lowest index first
MatchingSlots(handles, search_fd, fd_type) ==
    {i \in Slots : handles[i].fd = search_fd /\ handles[i].type = fd_type}

\* variant: the handle is tagged but the automatic unmount is not skipped
TagHandleThenUnmount(s, idx, fd_type) ==
    LET a == allocate_fd(s)
    IN  [s |-> fs_unmount_nolock(
                   [s EXCEPT !.current_fd = a.current_fd,
                             !.issued = Remember(s.issued, a.fd),
                             !.fs_handles[idx] = [fd |-> a.fd, type |-> fd_type]]),
         ret |-> a.fd]

\* the part of fs_opendir_nolock / fs_open_nolock after the backing open
\* succeeded: allocate the descriptor, tag the slot, skip the auto-unmount
TagHandle(s, idx, fd_type) ==
    LET a == allocate_fd(s)
    IN  [s |-> [s EXCEPT !.current_fd = a.current_fd,
                         !.issued = Remember(s.issued, a.fd),
                         !.fs_handles[idx] = [fd |-> a.fd, type |-> fd_type]],
         ret |-> a.fd]

fs_opendir_nolock(s, path) ==
    LET free == MatchingSlots(s.fs_handles, INVALID_FILESYSTEM_FD, "EMPTY")
    IN  IF free = {}
        THEN [s |-> s, ret |-> INVALID_FILESYSTEM_FD]
        ELSE LET m == fs_mount_nolock(s)
             IN  IF ~m.ret
                 THEN [s |-> m.s, ret |-> INVALID_FILESYSTEM_FD]
                 ELSE IF lfs_dir_open(m.s.tree, path) < 0
                      THEN [s |-> fs_unmount_nolock(m.s), ret |-> INVALID_FILESYSTEM_FD]
                      ELSE TagHandle(m.s, MinOf(free), "DIR")

fs_closedir_nolock(s, fd) ==
    LET found == MatchingSlots(s.fs_handles, fd, "DIR")
    IN  IF found = {}
        THEN [s |-> s, ret |-> "void"]
        ELSE [s |-> fs_unmount_nolock(
                        [s EXCEPT !.fs_handles[MinOf(found)] = EmptyHandle]),
              ret |-> "void"]

HasFlag(mode, flag) == (mode \div flag) % 2 = 1

\* LFS_O_CREAT is set for FS_WRITE, with or without FS_READ
OpenCreates(mode) == HasFlag(mode, FS_WRITE)

fs_open_nolock(s, filename, mode) ==
    LET free == MatchingSlots(s.fs_handles, INVALID_FILESYSTEM_FD, "EMPTY")
    IN  IF free = {}
        THEN [s |-> s, ret |-> INVALID_FILESYSTEM_FD]
        ELSE LET m == fs_mount_nolock(s)
             IN  IF ~m.ret
                 THEN [s |-> m.s, ret |-> INVALID_FILESYSTEM_FD]
                 ELSE LET o == lfs_file_opencfg(m.s.tree, filename, OpenCreates(mode))
                      IN  IF o.err < 0
                          THEN [s |-> fs_unmount_nolock(m.s), ret |-> INVALID_FILESYSTEM_FD]
                          ELSE TagHandle([m.s EXCEPT !.tree = o.tree], MinOf(free), "FILE")

\* variant: the slot is released but the mount reference is kept
CloseWithoutUnmount(s, fd) ==
    LET found == MatchingSlots(s.fs_handles, fd, "FILE")
    IN  IF found = {}
        THEN [s |-> s, ret |-> "void"]
        ELSE [s |-> [s EXCEPT !.fs_handles[MinOf(found)] = EmptyHandle],
              ret |-> "void"]

fs_close_nolock(s, fd) ==
    LET found == MatchingSlots(s.fs_handles, fd, "FILE")
    IN  IF found = {}
        THEN [s |-> s, ret |-> "void"]
        ELSE [s |-> fs_unmount_nolock(
                        [s EXCEPT !.fs_handles[MinOf(found)] = EmptyHandle]),
              ret |-> "void"]

\* strlcpy / strlcat into child_path: what does not fit in the buffer with
\* its terminator is cut off
strlcpy(src) == SubSeq(src, 1, IF Len(src) < MAX_PATH_BUFFER_SIZE THEN Len(src)
                                                                  ELSE MAX_PATH_BUFFER_SIZE - 1)
strlcat(dst, src) == strlcpy(dst \o src)

RECURSIVE fs_rmdir_nolock(_, _, _, _)
RECURSIVE RmdirChildren(_, _, _, _)

\* one turn of the while loop of the recursive branch, after the entry was
\* removed with result r: a failure ends the loop
RmdirNextChild(r, path, depth, unread) ==
    IF ~r.ret
    THEN [s |-> r.s, ret |-> FALSE]
    ELSE RmdirChildren(r.s, path, depth, unread)

\* the while loop of the recursive branch: every entry the directory read
\* returns is deleted (a file) or removed recursively (a directory); unread
\* are the entries the read has not come to yet, and an entry that is gone
\* by then is not returned
RmdirChildren(x, path, depth, unread) ==
    LET kids == Children(x.tree, Segments(path)) \cap unread
        k == CHOOSE n \in kids : TRUE
        child_path == strlcat(strlcat(strlcpy(path), <<"/">>), k[Len(k)])
    IN  IF kids = {}
        THEN [s |-> x, ret |-> TRUE]
        ELSE RmdirNextChild(IF x.tree[k] = "dir"
                            THEN fs_rmdir_nolock(x, child_path, TRUE, depth + 1)
                            ELSE fs_delete_nolock(x, child_path),
                            path, depth, unread \ {k})

\* the end of fs_rmdir_nolock: the directory itself is deleted unless
\* removing its contents failed
RmdirSelf(w, path) == IF ~w.ret THEN w ELSE fs_delete_nolock(w.s, path)

\* deepest: the largest depth with which the function was entered
fs_rmdir_nolock(s, path, recursive, depth) ==
    IF depth > FS_MAX_FILE_DEPTH
    THEN [s |-> [s EXCEPT !.deepest = IF depth > @ THEN depth ELSE @], ret |-> FALSE]
    ELSE AutoMountUnmount([s EXCEPT !.deepest = IF depth > @ THEN depth ELSE @], FALSE,
            LAMBDA x :
                IF recursive
                THEN IF lfs_dir_open(x.tree, path) < 0
                     THEN [s |-> x, ret |-> FALSE]
                     ELSE RmdirSelf(RmdirChildren(x, path, depth,
                                                 Children(x.tree, Segments(path))), path)
                ELSE fs_delete_nolock(x, path))

(***************************************************************************)
(* fs_is_eof (part_005).  A file handle carries the position and the size  *)
(* of its littlefs file.  fault names the littlefs call of fs_is_eof that  *)
(* returns an error, if one does; a call that fails leaves the position.   *)
(***************************************************************************)
EofFaults == {"none", "tell", "seek end", "seek back"}

lfs_file_tell(file, failing) == IF failing THEN LFS_ERR_IO ELSE file.pos

\* lfs_file_seek(file, off, LFS_SEEK_SET / LFS_SEEK_END)
lfs_file_seek(file, off, whence, failing) ==
    IF failing THEN [ret |-> LFS_ERR_IO, file |-> file]
    ELSE IF whence = "LFS_SEEK_END"
    THEN [ret |-> file.size + off, file |-> [file EXCEPT !.pos = file.size + off]]
    ELSE [ret |-> off, file |-> [file EXCEPT !.pos = off]]

fs_is_eof_nolock(x, fd, fault) ==
    IF MatchingSlots(x.handles, fd, "FILE") = {} THEN [x |-> x, ret |-> TRUE]
    ELSE IF x.mount_count = 0 THEN [x |-> x, ret |-> TRUE]
    ELSE \* the first matching slot: the block returns
         LET idx == MinOf(MatchingSlots(x.handles, fd, "FILE"))
             orig_offset == lfs_file_tell(x.handles[idx], fault = "tell")
             to_end == lfs_file_seek(x.handles[idx], 0, "LFS_SEEK_END", fault = "seek end")
             back == lfs_file_seek(to_end.file, orig_offset, "LFS_SEEK_SET",
                                   fault = "seek back")
         IN  IF orig_offset < 0 THEN [x |-> x, ret |-> TRUE]
             ELSE IF to_end.ret < 0 THEN [x |-> x, ret |-> TRUE]
             ELSE [x |-> [x EXCEPT !.handles[idx] = back.file],
                   ret |-> (orig_offset = to_end.ret)]

(***************************************************************************)
(* The public API.  A call is a record; Gate is the path validation done   *)
(* before the mutex is taken, NolockBody the body run under the mutex.     *)
(***************************************************************************)
DirPathOps == {"mkdir", "rmdir", "opendir"}
FilePathOps == {"exists", "delete", "open"}
FdOps == {"closedir", "close"}

MakeCall(op, path, fd, mode, recursive) ==
    [op |-> op, path |-> path, fd |-> fd, mode |-> mode, recursive |-> recursive]

NoCall == MakeCall("none", <<>>, 0, 0, FALSE)

Gate(call) ==
    IF call.op \in DirPathOps THEN PathGate(call.path, FS_MAX_DIR_DEPTH)
    ELSE IF call.op \in FilePathOps THEN PathGate(call.path, FS_MAX_FILE_DEPTH)
    ELSE TRUE

\* what a public function returns when its path fails validation
GateFailure(call) ==
    IF call.op \in {"opendir", "open"} THEN INVALID_FILESYSTEM_FD ELSE FALSE

NolockBody(call, s) ==
    CASE call.op = "format" -> fs_format_nolock(s)
      [] call.op = "init" -> fs_init_nolock(s)
      [] call.op = "mount" -> fs_mount_nolock(s)
      [] call.op = "unmount" -> [s |-> fs_unmount_nolock(s), ret |-> "void"]
      [] call.op = "is_mounted" -> [s |-> s, ret |-> fs_is_mounted_nolock(s)]
      [] call.op = "mkdir" -> fs_mkdir_nolock(s, call.path)
      [] call.op = "rmdir" -> fs_rmdir_nolock(s, call.path, call.recursive, 0)
      [] call.op = "opendir" -> fs_opendir_nolock(s, call.path)
      [] call.op = "closedir" -> fs_closedir_nolock(s, call.fd)
      [] call.op = "exists" -> fs_exists_nolock(s, call.path)
      [] call.op = "delete" -> fs_delete_nolock(s, call.path)
      [] call.op = "open" -> fs_open_nolock(s, call.path, call.mode)
      [] call.op = "close" -> fs_close_nolock(s, call.fd)

SetFsState(s) ==
    /\ mount_count' = s.mount_count
    /\ current_fd' = s.current_fd
    /\ fs_handles' = s.fs_handles
    /\ disk' = s.disk
    /\ tree' = s.tree
    /\ issued' = s.issued
    /\ stack_overflow' = s.overflow

(***************************************************************************)
(* Sequential use of the API: one public call per step.  The history       *)
(* variables record what the caller has observed:                          *)
(*   last       the result of the latest call, whether path validation     *)
(*              rejected it and whether it took the filesystem mutex;      *)
(*   hist       whether the calls so far were only fs_mount / fs_unmount   *)
(*              ("mount", with the numbers of successful mounts and of     *)
(*              unmounts, no unmount issued beyond the mounts), or only    *)
(*              handle and path operations on a formatted device           *)
(*              ("handle");                                                *)
(*   unbalanced whether fs_unmount was ever called when every remaining    *)
(*              mount reference belonged to an open handle.                *)
(***************************************************************************)
HandleOps == {"open", "opendir", "close", "closedir", "exists", "mkdir", "delete"}

NoHist == [kind |-> "none", mounts |-> 0, unmounts |-> 0]

HistAfter(call, ret) ==
    IF call.op = "is_mounted" THEN hist
    ELSE IF /\ call.op \in {"mount", "unmount"}
            /\ hist.kind \in {"none", "mount"}
            /\ ~(call.op = "unmount" /\ hist.unmounts >= hist.mounts)
            /\ hist.mounts + hist.unmounts < MaxTallied
         THEN [kind |-> "mount",
               mounts |-> hist.mounts + (IF call.op = "mount" /\ ret = TRUE THEN 1 ELSE 0),
               unmounts |-> hist.unmounts + (IF call.op = "unmount" THEN 1 ELSE 0)]
    ELSE IF /\ call.op \in HandleOps
            /\ \/ hist.kind = "handle"
               \/ hist.kind = "none" /\ disk = "formatted"
         THEN [kind |-> "handle", mounts |-> 0, unmounts |-> 0]
    ELSE [kind |-> "mixed", mounts |-> 0, unmounts |-> 0]

\* what the caller sees of a call's result: its C type and its value
RetType(call) ==
    IF call.op \in {"unmount", "close", "closedir"} THEN "void"
    ELSE IF call.op \in {"open", "opendir"} THEN "fs_fd_t"
    ELSE "bool"

NoLast == [type |-> "void", ret |-> "void", rejected |-> FALSE, locked |-> FALSE]

TableFull(handles) == OpenSlots(handles) = Slots

\* a public function called with `call`; `result` is what its body, run under
\* the mutex, yields from the current state
Api(call, result) ==
    /\ unbalanced' = (unbalanced \/ (/\ call.op = "unmount"
                                     /\ mount_count > 0
                                     /\ mount_count <= Cardinality(OpenSlots(fs_handles))))
    /\ IF ~Gate(call)
       THEN /\ UNCHANGED fsVars
            /\ last' = [type |-> RetType(call), ret |-> GateFailure(call), rejected |-> TRUE,
                        locked |-> FALSE]
            /\ hist' = HistAfter(call, GateFailure(call))
       ELSE \E r \in {result} :
                /\ SetFsState(r.s)
                /\ last' = [type |-> RetType(call), ret |-> r.ret, rejected |-> FALSE,
                            locked |-> TRUE]
                /\ hist' = HistAfter(call, r.ret)
    /\ UNCHANGED <<mtVars, pathVars, kmVars>>

\* paths the caller passes: the root, the deepest directory and the deepest
\* file the code allows, a path too deep for every operation, and one with a
\* "." segment
RECURSIVE ChainPath(_)
ChainPath(n) == IF n = 1 THEN <<"a">> ELSE ChainPath(n - 1) \o <<"/", "a">>
FsPaths ==
    {<<"/">>, ChainPath(FS_MAX_DIR_DEPTH), ChainPath(FS_MAX_FILE_DEPTH),
     ChainPath(FS_MAX_FILE_DEPTH + 1), <<"a", "/", ".", "/", "a">>}
OpenModes == {FS_READ, FS_WRITE + FS_TRUNCATE}
\* descriptors the caller passes to close: any it may hold
FdArgs == FIRST_VALID_FD..FdCounterMax

\* a device used before: the directories a, a/a, ... down to FS_MAX_DIR_DEPTH
UsedTree == [n \in {Segments(ChainPath(d)) : d \in 1..FS_MAX_DIR_DEPTH} |-> "dir"]

\* the calls the environment makes, by operation
Calls(op) ==
    IF op \in {"mkdir", "opendir", "exists", "delete"}
    THEN {MakeCall(op, p, 0, 0, FALSE) : p \in FsPaths}
    ELSE IF op = "rmdir"
    THEN {MakeCall(op, p, 0, 0, rec) : p \in FsPaths, rec \in BOOLEAN}
    ELSE IF op = "open"
    THEN {MakeCall(op, p, 0, m, FALSE) : p \in FsPaths, m \in OpenModes}
    ELSE IF op \in FdOps
    THEN {MakeCall(op, <<>>, fd, 0, FALSE) : fd \in FdArgs}
    ELSE {MakeCall(op, <<>>, 0, 0, FALSE)}

fs_format == \E c \in Calls("format") : Api(c, fs_format_nolock(FsState))
fs_init == \E c \in Calls("init") : Api(c, fs_init_nolock(FsState))
fs_mount ==
    /\ mount_count < MaxMountCount
    /\ \E c \in Calls("mount") : Api(c, fs_mount_nolock(FsState))
fs_unmount ==
    \E c \in Calls("unmount") : Api(c, [s |-> fs_unmount_nolock(FsState), ret |-> "void"])
fs_is_mounted ==
    \E c \in Calls("is_mounted") : Api(c, [s |-> FsState, ret |-> fs_is_mounted_nolock(FsState)])
fs_mkdir == \E c \in Calls("mkdir") : Api(c, fs_mkdir_nolock(FsState, c.path))
fs_rmdir == \E c \in Calls("rmdir") : Api(c, fs_rmdir_nolock(FsState, c.path, c.recursive, 0))
fs_opendir == \E c \in Calls("opendir") : Api(c, fs_opendir_nolock(FsState, c.path))
fs_closedir == \E c \in Calls("closedir") : Api(c, fs_closedir_nolock(FsState, c.fd))
fs_exists == \E c \in Calls("exists") : Api(c, fs_exists_nolock(FsState, c.path))
fs_delete == \E c \in Calls("delete") : Api(c, fs_delete_nolock(FsState, c.path))
fs_open == \E c \in Calls("open") : Api(c, fs_open_nolock(FsState, c.path, c.mode))
fs_close == \E c \in Calls("close") : Api(c, fs_close_nolock(FsState, c.fd))

\* static initialisers of the filesystem core; the device is blank or
\* holds a filesystem with directories made in an earlier session
FsStart ==
    /\ mount_count = 0
    /\ current_fd = FIRST_VALID_FD
    /\ fs_handles = ClearedHandles
    /\ disk \in {"blank", "formatted"}
    /\ tree = IF disk = "formatted" THEN UsedTree ELSE EmptyTree
    /\ issued = <<>>
    /\ stack_overflow = FALSE
    /\ last = NoLast
    /\ hist = NoHist
    /\ unbalanced = FALSE

Threads == {1, 2}
NoThread == 0
\* a thread's call in progress: the call, the local __fs_lock of
\* FS_AUTO_LOCK_UNLOCK, and the value returned once the body has run
NoCur == [call |-> NoCall, locked |-> FALSE, ret |-> "none"]
MtStart ==
    /\ fs_mutex = NoThread
    /\ pc = [t \in Threads |-> "idle"]
    /\ cur = [t \in Threads |-> NoCur]
    /\ unlocks = [t \in Threads |-> 0]

PathIdle ==
    /\ path_in = <<>>
    /\ depth_in = 0
    /\ path_out = NoOutput

Init == FsStart /\ MtStart /\ PathIdle /\ KmStart

Next ==
    \/ fs_format
    \/ fs_init
    \/ fs_mount
    \/ fs_unmount
    \/ fs_is_mounted
    \/ fs_mkdir
    \/ fs_rmdir
    \/ fs_opendir
    \/ fs_closedir
    \/ fs_exists
    \/ fs_delete
    \/ fs_open
    \/ fs_close

Spec == Init /\ [][Next]_vars

(***************************************************************************)
(* The path validators applied to every string over PathAlphabet up to    *)
(* MaxPathLen and to the specification's example paths.                    *)
(***************************************************************************)
InitPath == PathInit /\ FsStart /\ disk = "formatted" /\ MtStart /\ KmStart

NextPath ==
    \/ PathValidate
    \/ PathMkdirGate

SpecPath == InitPath /\ [][NextPath]_vars

(***************************************************************************)
(* Properties of the filesystem core.                                      *)
(***************************************************************************)
Fds(handles) == {handles[i].fd : i \in OpenSlots(handles)}
FdsOfType(handles, fd_type) == {handles[i].fd : i \in {j \in Slots : handles[j].type = fd_type}}
NumOpen == Cardinality(OpenSlots(fs_handles))
Range(seq) == {seq[i] : i \in 1..Len(seq)}
PathOps == DirPathOps \cup FilePathOps
DepthLimit(op) == IF op \in DirPathOps THEN FS_MAX_DIR_DEPTH ELSE FS_MAX_FILE_DEPTH

\* the step made by the public call c
Step(c) == Api(c, NolockBody(c, FsState))

\* C1: when the only calls so far were fs_mount and fs_unmount (no unmount
\* issued beyond the mounts), starting unmounted on a formatted or blank
\* device, the filesystem is mounted exactly when fewer unmounts than
\* successful mounts were made.
C1_MountedIffFewerUnmounts ==
    hist.kind = "mount" =>
        (fs_is_mounted_nolock(FsState) <=> hist.unmounts < hist.mounts)

C3_DescriptorsDistinctAndReleased ==
    /\ [](\A i \in OpenSlots(fs_handles) :
            /\ fs_handles[i].fd >= FIRST_VALID_FD
            /\ \A j \in OpenSlots(fs_handles) :
                  i # j => fs_handles[i].fd # fs_handles[j].fd)
    /\ [][(last'.type = "fs_fd_t" /\ last'.ret # INVALID_FILESYSTEM_FD) =>
            /\ \A i \in Slots : fs_handles[i].fd # last'.ret
            /\ last'.ret \in Fds(fs_handles')]_vars
    /\ [][\A op \in FdOps : \A c \in Calls(op) :
            LET fd_type == IF op = "close" THEN "FILE" ELSE "DIR"
            IN  (/\ last'.type = "void"
                 /\ c.fd \in FdsOfType(fs_handles, fd_type)
                 /\ Step(c)) =>
                    /\ \A i \in Slots : fs_handles'[i].fd # c.fd
                    /\ \A i \in Slots :
                          IF fs_handles[i].fd = c.fd
                          THEN fs_handles'[i] = EmptyHandle
                          ELSE fs_handles'[i] = fs_handles[i]]_vars

C3_Witness ==
    /\ last.type = "void"
    /\ NumOpen = FS_MAX_NUM_OPEN_FDS - 1
    /\ Len(issued) > 0
    /\ issued[1] \notin Fds(fs_handles)

\* a call that the backing store will not refuse: the directory or the file
\* it names exists
Openable(c) ==
    /\ disk = "formatted"
    /\ Gate(c)
    /\ \/ c.op = "opendir" /\ IsDir(tree, Segments(c.path))
       \/ c.op = "open" /\ IsFile(tree, Segments(c.path))

\* C4: with every slot of the table in use, fs_open / fs_opendir returns
\* INVALID_FILESYSTEM_FD and changes neither the table nor mount_count; with a
\* free slot, opening an existing file or directory succeeds; and a
\* descriptor that is handed out differs from each of the ReuseWindow
\* descriptors handed out before it.
C4_FullTableRefusesAndNoEarlyReuse ==
    /\ [][(last'.type = "fs_fd_t" /\ TableFull(fs_handles)) =>
            /\ last'.ret = INVALID_FILESYSTEM_FD
            /\ UNCHANGED <<fs_handles, mount_count>>]_vars
    /\ [](\A op \in {"open", "opendir"} : \A c \in Calls(op) :
            (~TableFull(fs_handles) /\ Openable(c)) =>
                NolockBody(c, FsState).ret # INVALID_FILESYSTEM_FD)
    /\ [][(last'.type = "fs_fd_t" /\ last'.ret # INVALID_FILESYSTEM_FD) =>
            last'.ret \notin Range(issued)]_vars

\* the table is full again, by an open that got a descriptor lower than one
\* still held: the counter has wrapped
C4_Witness ==
    /\ TableFull(fs_handles)
    /\ last.type = "fs_fd_t"
    /\ last.ret # INVALID_FILESYSTEM_FD
    /\ \E fd \in Fds(fs_handles) : fd > last.ret

\* C5: on a formatted device, starting unmounted, when the only calls so far
\* were fs_open, fs_opendir, fs_close, fs_closedir, fs_exists, fs_mkdir and
\* fs_delete, mount_count equals the number of open handles.
C5_MountCountIsOpenHandles ==
    hist.kind = "handle" => mount_count = NumOpen

C5_Witness ==
    /\ hist.kind = "handle"
    /\ last.type = "void"
    /\ NumOpen = 1
    /\ Len(issued) > 0
    /\ issued[1] \notin Fds(fs_handles)

\* a path that is empty, has a "." or ".." segment, or has more segments than
\* the operation allows
FailsValidation(c) ==
    \/ c.path = <<>>
    \/ HasDotSegment(c.path)
    \/ Len(Segments(c.path)) > DepthLimit(c.op)

TreeWithinDepth ==
    \A n \in DOMAIN tree :
        /\ tree[n] = "dir" => Len(n) <= FS_MAX_DIR_DEPTH
        /\ tree[n] = "file" => Len(n) <= FS_MAX_FILE_DEPTH

\* C8: a path that is empty, has a dot segment or is too deep for the
\* operation fails the validation of fs_mkdir, fs_rmdir, fs_opendir,
\* fs_exists, fs_delete and fs_open; a call whose path fails validation
\* returns false / INVALID_FILESYSTEM_FD without taking the mutex and leaves
\* mount_count, the handle table, the descriptor counter and the disk as
\* they were; no directory below FS_MAX_DIR_DEPTH and no file below
\* FS_MAX_FILE_DEPTH ever exists.
C8_InvalidPathRejectedUntouched ==
    /\ [](\A op \in PathOps : \A c \in Calls(op) : FailsValidation(c) => ~Gate(c))
    /\ [][last'.rejected =>
            /\ ~last'.locked
            /\ last'.ret = (IF last'.type = "fs_fd_t"
                            THEN INVALID_FILESYSTEM_FD ELSE FALSE)
            /\ UNCHANGED fsVars]_vars
    /\ []TreeWithinDepth

C8_Witness ==
    /\ last.rejected
    /\ last.type = "fs_fd_t"
    /\ NumOpen > 0
    /\ \E n \in DOMAIN tree : tree[n] = "file" /\ Len(n) = FS_MAX_FILE_DEPTH

\* a public path operation called in state s: the validation of the path,
\* then the body under the mutex
PublicCall(c, s) ==
    IF Gate(c) THEN NolockBody(c, s) ELSE [s |-> s, ret |-> GateFailure(c)]

\* the calls that find their work done: fs_mkdir of a directory that exists,
\* fs_delete of a path that names nothing
NothingToDo(c) ==
    \/ c.op = "mkdir" /\ IsDir(tree, Segments(c.path))
    \/ c.op = "delete" /\ ~NodeExists(tree, Segments(c.path))

MkdirAndDeleteCalls == Calls("mkdir") \cup Calls("delete")

\* the call returns true and leaves the tree alone, and the same call made
\* again returns the same and leaves the disk as the first call left it
TrueAndIdempotent(c) ==
    \A r1 \in {PublicCall(c, FsState)} :
        /\ r1.ret = TRUE
        /\ r1.s.tree = tree
        /\ \A r2 \in {PublicCall(c, r1.s)} :
               /\ r2.ret = r1.ret
               /\ r2.s.tree = r1.s.tree
               /\ r2.s.disk = r1.s.disk

\* C31, as stated: fs_mkdir of a directory that exists and fs_delete of a
\* path that does not exist return true and leave the contents of the
\* filesystem unchanged, and the call made twice in a row gives the result
\* and the disk of the call made once.
C31_MkdirDeleteIdempotent ==
    \A c \in MkdirAndDeleteCalls : NothingToDo(c) => TrueAndIdempotent(c)

\* C31, amended: the same for every path that passes the validation of the
\* call; fs_delete of a path that fails it returns false.
C31_ValidMkdirDeleteIdempotent ==
    /\ \A c \in MkdirAndDeleteCalls : (NothingToDo(c) /\ Gate(c)) => TrueAndIdempotent(c)
    /\ \A c \in MkdirAndDeleteCalls :
           (NothingToDo(c) /\ ~Gate(c)) =>
               /\ c.op = "delete"
               /\ PublicCall(c, FsState) = [s |-> FsState, ret |-> FALSE]

C31_Witness ==
    /\ last.type = "bool" /\ last.ret = TRUE /\ ~last.rejected
    /\ \E c \in Calls("mkdir") : c.path = ChainPath(FS_MAX_DIR_DEPTH) /\ NothingToDo(c) /\ Gate(c)
    /\ \E c \in Calls("delete") : c.path = ChainPath(FS_MAX_FILE_DEPTH) /\ NothingToDo(c) /\ Gate(c)
    /\ \E c \in Calls("delete") : NothingToDo(c) /\ ~Gate(c)

(***************************************************************************)
(* The filesystem core on every kind of device, failing ones included.     *)
(* Nothing runs after a call that exhausted the stack.                     *)
(***************************************************************************)
Devices == {"blank", "formatted", "unmountable", "unformattable"}

InitMount ==
    /\ mount_count = 0
    /\ current_fd = FIRST_VALID_FD
    /\ fs_handles = ClearedHandles
    /\ disk \in Devices
    /\ tree = IF disk = "formatted" THEN UsedTree ELSE EmptyTree
    /\ issued = <<>>
    /\ stack_overflow = FALSE
    /\ last = NoLast
    /\ hist = NoHist
    /\ unbalanced = FALSE
    /\ MtStart /\ PathIdle /\ KmStart

NextMount ==
    \/ ~stack_overflow /\ fs_format
    \/ ~stack_overflow /\ fs_init
    \/ ~stack_overflow /\ fs_mount
    \/ ~stack_overflow /\ fs_unmount
    \/ ~stack_overflow /\ fs_is_mounted
    \/ ~stack_overflow /\ fs_mkdir
    \/ ~stack_overflow /\ fs_exists
    \/ ~stack_overflow /\ fs_delete
    \/ ~stack_overflow /\ fs_opendir
    \/ ~stack_overflow /\ fs_closedir

SpecMount == InitMount /\ [][NextMount]_vars

\* the underlying mount fails, and fails again after the format or the
\* format fails
MountKeepsFailing == disk \in {"unmountable", "unformattable"}

\* C32: when the underlying mount fails and still fails after a successful
\* format, or the format fails, fs_mount returns after a bounded number of
\* format and mount attempts, returns false, and leaves mount_count at 0.
C32_MountGivesUp ==
    (MountKeepsFailing /\ mount_count = 0 /\ ~stack_overflow) =>
        \A c \in Calls("mount") : \A r \in {PublicCall(c, FsState)} :
            /\ ~r.s.overflow
            /\ r.ret = FALSE
            /\ r.s.mount_count = 0

(***************************************************************************)
(* Properties of the path validators.                                      *)
(***************************************************************************)
\* C6, as stated: the validation applied by fs_mkdir rejects every one of the
\* example paths "", "/", "/a/./b", "/a/../b", "/a//b", "/a/b/c/d".
C6_ExamplePathsRejected ==
    (path_out.kind = "mkdir" /\ path_in \in SpecExamplePaths) => path_out.rejected

\* C6, amended: the validation applied by fs_mkdir rejects the example paths
\* "", "/a/./b", "/a/../b", "/a//b" and "/a/b/c/d", and lets "/" through.
C6_ExamplePathsButRootRejected ==
    (path_out.kind = "mkdir" /\ path_in \in SpecExamplePaths) =>
        (path_out.rejected <=> path_in # <<"/">>)

C6_Witness ==
    /\ path_out.kind = "mkdir"
    /\ path_in = <<"/", "a", "/", "b", "/", "c", "/", "d">>
    /\ path_out.rejected

\* C7: for every path over {'/', '.', 'a'} up to MaxPathLen and every depth up
\* to MaxDepthArg, both validators accept exactly when the path is non-empty,
\* has no "." or ".." segment, has no two adjacent '/' and has at most
\* max_depth segments.
C7_ValidatorsMatchReference ==
    (path_out.kind = "validate" /\ path_in \in StringsUpTo(MaxPathLen)) =>
        ((path_out.safe /\ path_out.depth_valid) <=>
            (/\ path_in # <<>>
             /\ ~HasDotSegment(path_in)
             /\ ~HasAdjacentSlashes(path_in)
             /\ Len(Segments(path_in)) <= depth_in))

(***************************************************************************)
(* Threads calling the public API.  A call validates its path, then        *)
(* FS_AUTO_LOCK_UNLOCK takes fs_mutex (chMtxLock blocks while another      *)
(* thread owns it), the body runs, and the cleanup attribute runs          *)
(* fs_unlock_helper on every way out of the scope.                         *)
(***************************************************************************)
\* variant: chMtxLock that does not wait
LockWithoutWaiting(mutex) == TRUE

\* chMtxLock returns once no thread owns the mutex
CanLock(mutex) == mutex = NoThread

\* variant: a cleanup that never unlocks
UnlockHelperSkipped(locked, mutex) == mutex

fs_unlock_helper(locked, mutex) == IF locked THEN NoThread ELSE mutex

\* the calls the threads make
MtCalls ==
    Calls("mount") \cup Calls("unmount")
        \cup {c \in Calls("opendir") : c.path \in {<<"/">>, ChainPath(FS_MAX_FILE_DEPTH)}}
        \cup Calls("closedir")

\* a thread enters a public function: a path that fails validation makes it
\* return at once
MtCall(t) ==
    /\ pc[t] = "idle"
    /\ \E c \in MtCalls :
        /\ c.op = "mount" => mount_count < MaxMountCount
        /\ IF Gate(c)
           THEN /\ pc' = [pc EXCEPT ![t] = "lock"]
                /\ cur' = [cur EXCEPT ![t] = [call |-> c, locked |-> FALSE, ret |-> "none"]]
           ELSE /\ pc' = [pc EXCEPT ![t] = "done"]
                /\ cur' = [cur EXCEPT ![t] = [call |-> c, locked |-> FALSE,
                                              ret |-> GateFailure(c)]]
    /\ unlocks' = [unlocks EXCEPT ![t] = 0]
    /\ UNCHANGED <<fs_mutex, fsVars, seqVars, pathVars, kmVars>>

\* bool __fs_lock = fs_lock()
MtLock(t) ==
    /\ pc[t] = "lock"
    /\ CanLock(fs_mutex)
    /\ fs_mutex' = t
    /\ cur' = [cur EXCEPT ![t].locked = TRUE]
    /\ pc' = [pc EXCEPT ![t] = "body"]
    /\ UNCHANGED <<unlocks, fsVars, seqVars, pathVars, kmVars>>

\* the _nolock body, up to whichever return statement it takes
MtBody(t) ==
    /\ pc[t] = "body"
    /\ \E r \in {NolockBody(cur[t].call, FsState)} :
        /\ SetFsState(r.s)
        /\ cur' = [cur EXCEPT ![t].ret = r.ret]
    /\ pc' = [pc EXCEPT ![t] = "cleanup"]
    /\ UNCHANGED <<fs_mutex, unlocks, seqVars, pathVars, kmVars>>

\* __fs_lock goes out of scope: fs_unlock_helper(&__fs_lock)
MtUnlock(t) ==
    /\ pc[t] = "cleanup"
    /\ fs_mutex' = fs_unlock_helper(cur[t].locked, fs_mutex)
    /\ unlocks' = [unlocks EXCEPT ![t] = @ + (IF cur[t].locked THEN 1 ELSE 0)]
    /\ pc' = [pc EXCEPT ![t] = "done"]
    /\ UNCHANGED <<cur, fsVars, seqVars, pathVars, kmVars>>

\* the caller has the result
MtReturn(t) ==
    /\ pc[t] = "done"
    /\ pc' = [pc EXCEPT ![t] = "idle"]
    /\ cur' = [cur EXCEPT ![t] = NoCur]
    /\ unlocks' = [unlocks EXCEPT ![t] = 0]
    /\ UNCHANGED <<fs_mutex, fsVars, seqVars, pathVars, kmVars>>

InitMT == FsStart /\ disk = "formatted" /\ MtStart /\ PathIdle /\ KmStart

NextMT ==
    \E t \in Threads :
        \/ MtCall(t)
        \/ MtLock(t)
        \/ MtBody(t)
        \/ MtUnlock(t)
        \/ MtReturn(t)

SpecMT == InitMT /\ [][NextMT]_vars

InBody(t) == pc[t] \in {"body", "cleanup"}

\* C9: at most one thread is inside the body of a public operation, and it
\* owns fs_mutex; mount_count, the handle table, the descriptor counter and
\* the disk change only in a step of the thread that owns the mutex; a call
\* that has returned has released the mutex exactly once if it took it and
\* never if its path was rejected; the mutex is free whenever no thread is
\* inside a body.
C9_MutexSerializesAndIsReleased ==
    /\ [](\A t, u \in Threads : (InBody(t) /\ InBody(u)) => t = u)
    /\ [](\A t \in Threads : InBody(t) => fs_mutex = t)
    /\ [][fsVars' # fsVars => \E t \in Threads : fs_mutex = t /\ pc[t] = "body"]_vars
    /\ [](\A t \in Threads :
            pc[t] = "done" => unlocks[t] = (IF Gate(cur[t].call) THEN 1 ELSE 0))
    /\ []((\A t \in Threads : ~InBody(t)) => fs_mutex = NoThread)

\* one thread is inside fs_opendir with the table full, about to take the
\* early return, while the other waits for the mutex
C9_Witness ==
    \E t, u \in Threads :
        /\ pc[t] = "body"
        /\ pc[u] = "lock"
        /\ cur[t].call.op = "opendir"
        /\ TableFull(fs_handles)

(***************************************************************************)
(* The keymap store driven by its callers (VIA and the housekeeping task). *)
(* Beyond an out-of-bounds store that hit the store, and beyond a fault of  *)
(* the filesystem, a run is followed only through further loads, which     *)
(* then suffer no fault.                                                   *)
(***************************************************************************)
Halted == store_clobbered \/ io_faulted

KmOthers == <<keyboard, fsVars, seqVars, mtVars, pathVars, encVars, macVars, moreVars>>

\* every key in range, and one index beyond each range
KeyArgs ==
    (Layers \X Rows \X Cols)
        \cup {<<DYNAMIC_KEYMAP_LAYER_COUNT, 0, 0>>, <<0, MATRIX_ROWS, 0>>,
               <<0, 0, MATRIX_COLS>>}

UpdateKeycode ==
    /\ ~Halted
    /\ \E key \in KeyArgs, keycode \in Keycodes :
         SetKmState(nvm_dynamic_keymap_update_keycode(KmState, key[1], key[2], key[3],
                                                      keycode))
    /\ UNCHANGED <<store_loaded, store_clobbered, io_faulted, oob_layout, KmOthers>>

\* byte offsets: the start, an odd offset, the last key, beyond the cache
BufferOffsets == {0, 2 * MATRIX_COLS - 1, CacheBytes - 2, CacheBytes + 2}
\* source buffers of two 16-bit words
BufferData == {<<0, MaxKeycode>>, <<MaxKeycode, 0>>}

UpdateBuffer ==
    /\ ~Halted
    /\ \E offset \in BufferOffsets, size \in {2, 4}, data \in BufferData :
         SetKmState(nvm_dynamic_keymap_update_buffer(KmState, offset, size, data))
    /\ UNCHANGED <<store_loaded, store_clobbered, io_faulted, oob_layout, KmOthers>>

Save ==
    /\ ~Halted
    /\ \E fault \in SaveFaults :
         /\ SetKmState(nvm_dynamic_keymap_save(KmState, fault))
         /\ io_faulted' = (fault # NoFault)
    /\ UNCHANGED <<store_loaded, store_clobbered, oob_layout, KmOthers>>

LayoutChoices ==
    IF oob_layout = UnknownLayout THEN OutOfBoundsOutcomes ELSE {oob_layout}

Load ==
    /\ \E outcome \in LayoutChoices,
          fault \in (IF io_faulted THEN {NoFault} ELSE LoadFaults) :
         \E loaded \in {nvm_dynamic_keymap_load(KmState, outcome, fault)} :
            /\ SetKmState(loaded)
            /\ io_faulted' = (io_faulted \/ fault # NoFault)
            /\ oob_layout' = outcome
            /\ store_clobbered' =
                   \/ LayerStateBits > DYNAMIC_KEYMAP_LAYER_COUNT /\ outcome.hit # "nothing"
                   \/ loaded.overrun
    /\ store_loaded' = TRUE
    /\ UNCHANGED KmOthers

\* nvm_dynamic_keymap_erase: the keymap and, in a build with an encoder map,
\* the encoder map
Erase ==
    /\ ~Halted
    /\ SetKmState(nvm_dynamic_keymap_erase(KmState))
    /\ SetEncRam(EraseEncoderMap(EncState))
    /\ store_loaded' = TRUE
    /\ UNCHANGED <<store_clobbered, io_faulted, oob_layout, keyboard,
                   fsVars, seqVars, mtVars, pathVars, macVars, moreVars>>

InitKeymap == keyboard \in Keyboards /\ KmStatics /\ FsStart /\ disk = "formatted" /\ MtStart /\ PathIdle

NextKeymap ==
    \/ UpdateKeycode
    \/ UpdateBuffer
    \/ Save
    \/ Load
    \/ Erase

SpecKeymap == InitKeymap /\ [][NextKeymap]_vars

\* C10: once load or erase has brought the store up, for every layer below
\* DYNAMIC_KEYMAP_LAYER_COUNT and every (row, col) in range the altered bit of
\* the key is set if and only if the cached keycode differs from the raw
\* compile-time default of that position.
C10_AlteredBitIffCacheDiffers ==
    store_loaded =>
        \A layer \in Layers, row \in Rows, col \in Cols :
            is_key_altered(KmState, layer, row, col)
                <=> (nvm_dynamic_keymap_read_keycode(KmState, layer, row, col)
                        # keycode_at_keymap_location_raw(layer, row, col))

\* C11: for every layer below DYNAMIC_KEYMAP_LAYER_COUNT the altered count of
\* the layer equals the number of set bits of the layer's altered bitmap, so
\* it is neither below 0 nor above MATRIX_ROWS * MATRIX_COLS.
C11_CountIsPopcount ==
    \A layer \in Layers :
        /\ dynamic_keymap_altered_count[layer]
              = Cardinality(dynamic_keymap_altered_keys[layer])
        /\ dynamic_keymap_altered_count[layer] <= MATRIX_ROWS * MATRIX_COLS

HitsNothing == [hit |-> "nothing", layer |-> 0]

\* save() and then load() from the present state, with no filesystem fault and
\* the out-of-bounds stores of load landing on nothing of the store
SavedThenLoaded ==
    nvm_dynamic_keymap_load(nvm_dynamic_keymap_save(KmState, NoFault), HitsNothing, NoFault)

\* C12: from any state reached after the store was brought up by load or
\* erase, whatever update_keycode calls and layer files came before, save()
\* followed by load() without I/O error gives back the cache as it was before
\* the save, for every layer and every (row, col).
C12_SaveLoadRoundTrip ==
    (store_loaded /\ ~Halted) =>
        \A layer \in Layers, row \in Rows, col \in Cols :
            nvm_dynamic_keymap_read_keycode(SavedThenLoaded, layer, row, col)
                = nvm_dynamic_keymap_read_keycode(KmState, layer, row, col)

\* What the save policy asks for a layer, written from the altered bitmap and
\* the cache alone: the entries {row, col, keycode} of the altered keys in
\* row-major order, row in the low byte and col in the high byte of the first
\* word of an entry.
RECURSIVE OverrideEntriesFrom(_, _)
OverrideEntriesFrom(layer, key) ==
    IF key >= MATRIX_ROWS * MATRIX_COLS THEN <<>>
    ELSE IF key \in dynamic_keymap_altered_keys[layer]
    THEN <<(key \div MATRIX_COLS) + 256 * (key % MATRIX_COLS),
           dynamic_keymap_layer_cache[layer][key]>> \o OverrideEntriesFrom(layer, key + 1)
    ELSE OverrideEntriesFrom(layer, key + 1)

FullGrid(layer) ==
    [i \in 1..(MATRIX_ROWS * MATRIX_COLS) |-> dynamic_keymap_layer_cache[layer][i - 1]]

PolicySubmission(layer) ==
    IF layer \notin dynamic_keymap_layer_dirty THEN [op |-> "none"]
    ELSE IF dynamic_keymap_altered_count[layer] = 0 THEN [op |-> "delete"]
    ELSE IF MATRIX_ROWS * MATRIX_COLS * 2 <= 4 * dynamic_keymap_altered_count[layer]
    THEN [op |-> "update", block |-> [write_mode |-> 0, words |-> FullGrid(layer)]]
    ELSE [op |-> "update",
          block |-> [write_mode |-> 1, words |-> OverrideEntriesFrom(layer, 0)]]

SavedNow == nvm_dynamic_keymap_save(KmState, NoFault)

\* C13: for every dirty layer with altered count n, save deletes the layer
\* file when n = 0, submits mode 0 and the whole grid when R*C*2 <= 4*n, and
\* else submits mode 1 and exactly n entries, one per altered key in row-major
\* order; a layer that is not dirty is not touched.
C13_SavePolicy ==
    \A layer \in Layers :
        /\ SavedNow.submitted[layer] = PolicySubmission(layer)
        /\ (SavedNow.submitted[layer].op = "update"
              /\ SavedNow.submitted[layer].block.write_mode = 1)
             => Len(SavedNow.submitted[layer].block.words)
                  = 2 * dynamic_keymap_altered_count[layer]
        /\ layer \notin dynamic_keymap_layer_dirty
             => SavedNow.files[layer] = layer_files[layer]

\* the layers for which a save started now takes the override branch
OverrideLayers ==
    {layer \in Layers \cap dynamic_keymap_layer_dirty :
        /\ dynamic_keymap_altered_count[layer] # 0
        /\ MATRIX_ROWS * MATRIX_COLS * 2 > 4 * dynamic_keymap_altered_count[layer]}

\* C40: whenever save takes the override branch for a layer, the number of
\* entries it stores in keymap_layer_overrides equals the altered count of
\* the layer and is strictly smaller than MAX_KEYMAP_OVERRIDES, for an odd
\* and for an even MATRIX_ROWS x MATRIX_COLS, and the block submitted for
\* the file is the mode byte and that many entries.
C40_OverrideEntriesFit ==
    \A layer \in OverrideLayers :
        \E saved \in {SaveLayer(KmState, layer, "none")} :
            /\ saved.entries = dynamic_keymap_altered_count[layer]
            /\ saved.entries < MAX_KEYMAP_OVERRIDES
            /\ saved.submitted[layer].op = "update"
            /\ saved.submitted[layer].block.write_mode = 1
            /\ Len(saved.submitted[layer].block.words) = 2 * saved.entries

\* the faults that make the file operation of a dirty layer fail in a save
\* started now: the layer is dirty, its block is submitted to fs_update_block,
\* and the file after the save is not the block submitted
FailingSaveFaults ==
    {fault \in SaveFaults \ {NoFault} :
        /\ fault.layer \in dynamic_keymap_layer_dirty
        /\ SavedNow.submitted[fault.layer].op = "update"
        /\ nvm_dynamic_keymap_save(KmState, fault).files[fault.layer]
             # SavedNow.files[fault.layer]}

\* C14: when persisting a dirty layer fails during save (the open for writing
\* fails or the write is short), the dirty bit of that layer is still set when
\* save returns.
C14_FailedSaveStaysDirty ==
    \A fault \in FailingSaveFaults :
        fault.layer \in nvm_dynamic_keymap_save(KmState, fault).dirty

\* a layer file that holds fewer bytes than a complete record: in mode 0 less
\* than the whole grid, in mode 1 less than one entry
IncompleteFile(file) ==
    /\ file # NoFile
    /\ Len(file.words) < (IF file.write_mode = 0 THEN MATRIX_ROWS * MATRIX_COLS ELSE 2)

\* the file of the layer is absent, cannot be opened, cannot be read, or is
\* incomplete in a load started now under the fault
LoadFailsFor(layer, fault) ==
    \/ layer_files[layer] = NoFile
    \/ FaultAt(fault, layer, "open")
    \/ FaultAt(fault, layer, "read")
    \/ IncompleteFile(layer_files[layer])

LayerIsRaw(k, layer) ==
    /\ \A row \in Rows, col \in Cols :
          k.cache[layer][KeyIndex(row, col)] = keycode_at_keymap_location_raw(layer, row, col)
    /\ k.altered_count[layer] = 0

\* C15: when during load the file of a layer is absent, cannot be opened, or
\* its read fails or returns fewer bytes than a complete record, every key of
\* that layer equals its raw default after the load and the altered count of
\* the layer is 0 (the out-of-bounds stores of load left aside).
C15_FailedLoadGivesRaw ==
    \A fault \in LoadFaults, layer \in Layers :
        LoadFailsFor(layer, fault)
            => LayerIsRaw(nvm_dynamic_keymap_load(KmState, HitsNothing, fault), layer)

InRangeKeys == Layers \X Rows \X Cols
OutOfRangeKeys == KeyArgs \ InRangeKeys

\* C16: update_keycode with layer >= DYNAMIC_KEYMAP_LAYER_COUNT, row >=
\* MATRIX_ROWS or column >= MATRIX_COLS changes nothing and read_keycode with
\* such an index returns KC_NO (0); an in-range update stores the keycode in
\* the cache and sets the dirty bit of the layer, also when the cache already
\* holds that keycode.
C16_UpdateBoundsAndDirty ==
    /\ \A key \in OutOfRangeKeys :
          /\ nvm_dynamic_keymap_read_keycode(KmState, key[1], key[2], key[3]) = 0
          /\ \A keycode \in Keycodes :
                nvm_dynamic_keymap_update_keycode(KmState, key[1], key[2], key[3], keycode)
                    = KmState
    /\ \A key \in InRangeKeys, keycode \in Keycodes :
          \E updated \in {nvm_dynamic_keymap_update_keycode(KmState, key[1], key[2], key[3],
                                                           keycode)} :
             /\ updated.cache[key[1]][KeyIndex(key[2], key[3])] = keycode
             /\ key[1] \in updated.dirty

\* a layer is dirty although no key of the store has ever differed from what
\* the cache held: an in-range update with the keycode already there has acted
C16_Witness ==
    /\ ~store_loaded
    /\ dynamic_keymap_layer_dirty # {}
    /\ \A layer \in Layers :
          /\ dynamic_keymap_altered_count[layer] = 0
          /\ \A key \in Keys : dynamic_keymap_layer_cache[layer][key] = 0
          /\ layer_files[layer] = NoFile

\* what the claim compares of two states of the store
RamOf(k) ==
    [cache |-> k.cache, altered_keys |-> k.altered_keys,
     altered_count |-> k.altered_count, dirty |-> k.dirty]

LoadedOnce(outcome) == nvm_dynamic_keymap_load(KmState, outcome, NoFault)
LoadedTwice(outcome) == nvm_dynamic_keymap_load(LoadedOnce(outcome), outcome, NoFault)

\* C17: with the disk unchanged and no failure of the filesystem, a second
\* load() leaves the cache, the altered bitmap, the altered counts and the
\* dirty mask as they were after the first load(), from any prior RAM state.
C17_LoadIdempotent ==
    \A outcome \in LayoutChoices :
        \E once \in {LoadedOnce(outcome)} :
            RamOf(nvm_dynamic_keymap_load(once, outcome, NoFault)) = RamOf(once)

\* C37: keymap load and save index the layer cache, the altered bitmap and
\* the altered counts only with layer < DYNAMIC_KEYMAP_LAYER_COUNT, in every
\* build whose DYNAMIC_KEYMAP_LAYER_COUNT is at most the number of bits of
\* layer_state_t.
C37_LayerIndexInRange ==
    DYNAMIC_KEYMAP_LAYER_COUNT <= LayerStateBits =>
        /\ \A outcome \in LayoutChoices, fault \in LoadFaults :
              nvm_dynamic_keymap_load(KmState, outcome, fault).indexed \subseteq Layers
        /\ \A fault \in SaveFaults :
              nvm_dynamic_keymap_save(KmState, fault).indexed \subseteq Layers

(***************************************************************************)
(* The encoder map of a build with ENCODER_MAP_ENABLE.                     *)
(***************************************************************************)
KeymapRam == <<dynamic_keymap_layer_dirty, dynamic_keymap_altered_count,
               dynamic_keymap_altered_keys, dynamic_keymap_layer_cache, layer_files>>
EncOthers == <<keyboard, fsVars, seqVars, mtVars, pathVars, macVars, KeymapRam, moreVars>>

EncoderArgs == (Layers \X Encoders) \cup {<<DYNAMIC_KEYMAP_LAYER_COUNT, 0>>, <<0, NUM_ENCODERS>>}

UpdateEncoder ==
    /\ ~Halted
    /\ \E arg \in EncoderArgs, clockwise \in BOOLEAN, keycode \in Keycodes :
          SetEncRam(nvm_dynamic_keymap_update_encoder(EncState, arg[1], arg[2],
                                                      clockwise, keycode))
    /\ UNCHANGED <<dynamic_keymap_scratch, store_loaded, store_clobbered, io_faulted,
                   oob_layout, EncOthers>>

EncoderSave ==
    /\ ~Halted
    /\ \E saved \in {nvm_dynamic_encodermap_save(EncState)} :
          /\ SetEncRam(saved)
          /\ dynamic_keymap_scratch' = saved.scratch
    /\ UNCHANGED <<store_loaded, store_clobbered, io_faulted, oob_layout, EncOthers>>

EncoderLoad ==
    /\ \E outcome \in LayoutChoices :
          \E loaded \in {nvm_dynamic_encodermap_load(EncState, outcome)} :
             /\ SetEncRam(loaded)
             /\ dynamic_keymap_scratch' = loaded.scratch
             /\ oob_layout' = outcome
             /\ store_clobbered' = (LayerStateBits > DYNAMIC_KEYMAP_LAYER_COUNT
                                      /\ outcome.hit # "nothing")
    /\ store_loaded' = TRUE
    /\ UNCHANGED <<io_faulted, EncOthers>>

InitEncoder ==
    keyboard = EncoderKeyboard /\ KmStatics /\ FsStart /\ disk = "formatted" /\ MtStart /\ PathIdle

NextEncoder ==
    \/ UpdateEncoder
    \/ EncoderSave
    \/ EncoderLoad
    \/ Erase

SpecEncoder == InitEncoder /\ [][NextEncoder]_vars

\* C18: after erase, or after load when no layers/encNN file exists,
\* read_encoder(layer, encoder, clockwise) returns the raw default of (layer,
\* encoder, clockwise) for both directions and no position is marked altered;
\* and from then on a position is marked altered exactly when its cached
\* keycode differs from its raw default.
EncoderReadsRaw(e) ==
    \A layer \in Layers, encoder \in Encoders, clockwise \in BOOLEAN :
        /\ nvm_dynamic_keymap_read_encoder(e, layer, encoder, clockwise)
             = keycode_at_encodermap_location_raw(layer, encoder, clockwise)
        /\ ~is_encodermap_altered(e, layer, encoder, clockwise)

EncoderAlteredIffDiffers ==
    \A layer \in Layers, encoder \in Encoders, clockwise \in BOOLEAN :
        is_encodermap_altered(EncState, layer, encoder, clockwise)
            <=> (nvm_dynamic_keymap_read_encoder(EncState, layer, encoder, clockwise)
                   # keycode_at_encodermap_location_raw(layer, encoder, clockwise))

C18_EncoderDefaults ==
    /\ EncoderReadsRaw(EraseEncoderMap(EncState))
    /\ (\A layer \in Layers : encoder_files[layer] = NoFile)
          => EncoderReadsRaw(nvm_dynamic_encodermap_load(EncState, HitsNothing))
    /\ store_loaded => EncoderAlteredIffDiffers

(***************************************************************************)
(* The macro store.                                                        *)
(***************************************************************************)
MacOthers == <<keyboard, fsVars, seqVars, mtVars, pathVars, encVars, KeymapRam,
               dynamic_keymap_scratch, store_loaded, store_clobbered, io_faulted,
               moreVars>>

MacroOffsets == 0..MacroBufferSize
MacroSizes == {1, 2}

MacroUpdateBuffer ==
    /\ \E offset \in MacroOffsets, size \in MacroSizes :
          \E data \in [1..size -> MacroBytes] :
             SetMacState(nvm_dynamic_keymap_macro_update_buffer(MacState, offset, size, data))
    /\ UNCHANGED <<macro_out, oob_layout, MacOthers>>

MacroReadBuffer ==
    /\ \E offset \in MacroOffsets, size \in MacroSizes :
          macro_out' = nvm_dynamic_keymap_macro_read_buffer(MacState, offset, size)
    /\ UNCHANGED <<dynamic_macro_altered, dynamic_macro_buffer, macro_files,
                   oob_layout, MacOthers>>

MacroSave ==
    /\ SetMacState(nvm_dynamic_keymap_macro_save(MacState))
    /\ UNCHANGED <<macro_out, oob_layout, MacOthers>>

MacroLayoutChoices ==
    IF oob_layout = UnknownLayout THEN MacroOverrunOutcomes ELSE {oob_layout}

MacroLoad ==
    /\ \E loaded \in {nvm_dynamic_keymap_macro_load(MacState)} :
          IF loaded.overrun
          THEN \E outcome \in MacroLayoutChoices :
                  /\ SetMacState(MacroOverrun(loaded, outcome))
                  /\ oob_layout' = outcome
          ELSE /\ SetMacState(loaded)
               /\ UNCHANGED oob_layout
    /\ UNCHANGED <<macro_out, MacOthers>>

MacroErase ==
    /\ SetMacState(nvm_dynamic_keymap_macro_erase(MacState))
    /\ UNCHANGED <<macro_out, oob_layout, MacOthers>>

MacroReset ==
    /\ SetMacState(nvm_dynamic_keymap_macro_reset(MacState))
    /\ UNCHANGED <<macro_out, oob_layout, MacOthers>>

InitMacro ==
    keyboard = NarrowKeyboard /\ KmStatics /\ FsStart /\ disk = "formatted" /\ MtStart /\ PathIdle

NextMacro ==
    \/ MacroUpdateBuffer
    \/ MacroReadBuffer
    \/ MacroSave
    \/ MacroLoad
    \/ MacroErase
    \/ MacroReset

SpecMacro == InitMacro /\ [][NextMacro]_vars

\* the ranges update_buffer writes in full: those that end before the last
\* byte of the buffer
WholeRanges ==
    {range \in MacroOffsets \X MacroSizes : range[1] + range[2] < MacroBufferSize}

\* C19: after macro update_buffer(offset, data), macro save() and macro
\* load(), macro read_buffer(offset, len(data)) returns data, from every
\* reachable state of the buffer and of the macros/ directory.
C19_MacroRoundTrip ==
    \A range \in WholeRanges :
        \A data \in [1..range[2] -> MacroBytes] :
            nvm_dynamic_keymap_macro_read_buffer(
                nvm_dynamic_keymap_macro_load(
                    nvm_dynamic_keymap_macro_save(
                        nvm_dynamic_keymap_macro_update_buffer(MacState, range[1],
                                                               range[2], data))),
                range[1], range[2]) = data

\* update_buffer seen from outside: the bytes of the range inside the buffer
\* hold the data, the others are as before, the flag is raised exactly when
\* the buffer changed and is never lowered
UpdateSetsFlagIffChanged(offset, size, data) ==
    \E updated \in {nvm_dynamic_keymap_macro_update_buffer(MacState, offset, size, data)} :
       /\ \A j \in MacroIndexes :
             updated.buffer[j] = IF j >= offset /\ j < offset + size
                                 THEN data[j - offset + 1]
                                 ELSE dynamic_macro_buffer[j]
       /\ updated.altered
            = (dynamic_macro_altered \/ updated.buffer # dynamic_macro_buffer)
       /\ updated.files = macro_files

SaveFollowsFlag ==
    \E saved \in {nvm_dynamic_keymap_macro_save(MacState)} :
       /\ ~saved.altered
       /\ saved.buffer = dynamic_macro_buffer
       /\ ~dynamic_macro_altered => saved.files = macro_files

\* C20: macro update_buffer sets the dirty flag if and only if a byte of the
\* addressed range changes and leaves buffer and flag as they are when the
\* bytes written equal the bytes there; macro save does nothing when the flag
\* is clear and clears the flag when it runs; macro read_buffer never changes
\* the flag.
C20_MacroDirtyFlag ==
    /\ [](/\ \A offset \in MacroOffsets, size \in MacroSizes :
               \A data \in [1..size -> MacroBytes] :
                   UpdateSetsFlagIffChanged(offset, size, data)
          /\ SaveFollowsFlag)
    /\ [][MacroReadBuffer => UNCHANGED <<dynamic_macro_altered, dynamic_macro_buffer>>]_vars

\* a save has cleared the flag that an update had raised, and a read has run
C20_Witness ==
    /\ ~dynamic_macro_altered
    /\ \E n \in MacroIndexes : macro_files[n] # NoFile
    /\ \E j \in MacroIndexes : dynamic_macro_buffer[j] # 0
    /\ macro_out # <<>>

(***************************************************************************)
(* The bytes of dynamic_macro_buffer each macro call touches, as indices   *)
(* from the start of the array: 0..sizeof(dynamic_macro_buffer) - 1 are    *)
(* the array, anything else is memory outside it.                          *)
(***************************************************************************)
\* sizeof(dynamic_macro_buffer) - offset in uint32_t arithmetic
WrapSub(a, b) == (a - b + WordModulus) % WordModulus

\* the size read_buffer and update_buffer hand to memcpy and memcmp: the sum
\* offset + size is computed in uint32_t, and so is the clamped size
MacroCopySize(offset, size) ==
    IF WrapAdd(offset, size) >= MacroBufferSize
    THEN WrapSub(MacroBufferSize, offset)
    ELSE size

\* memcpy(data, dynamic_macro_buffer + offset, size) and its counterpart of
\* update_buffer: the indices copied
MacroCopied(offset, size) ==
    {offset + i : i \in 0..(MacroCopySize(offset, size) - 1)}

\* the inner loop of save reads *macro_end before it compares macro_end with
\* terminator: the indices it reads from macro_end on
RECURSIVE MacroEndReads(_, _)
MacroEndReads(m, macro_end) ==
    {macro_end} \cup
        IF macro_end < MacroBufferSize /\ m.buffer[macro_end] # 0
        THEN MacroEndReads(m, macro_end + 1)
        ELSE {}

\* the indices the loops of save read from macro_start on
RECURSIVE SaveReadsFrom(_, _)
SaveReadsFrom(m, macro_start) ==
    IF macro_start >= MacroBufferSize THEN {}
    ELSE MacroEndReads(m, macro_start) \cup SaveReadsFrom(m, MacroEnd(m, macro_start) + 1)

MacroSaveReads(m) == IF m.altered THEN SaveReadsFrom(m, 0) ELSE {}

\* the indices fs_read(fd, ptr, max_count) stores to in the loop of load: once
\* max_count has wrapped to SIZE_MAX (past_end) the whole file goes to ptr
RECURSIVE LoadWritesFrom(_, _, _, _)
LoadWritesFrom(m, n, ptr, past_end) ==
    IF n >= MacroBufferSize THEN {}
    ELSE IF m.files[n] = NoFile THEN {}
    ELSE LET max_count == MacroBufferSize - ptr
             length == Len(m.files[n].bytes)
             count == IF past_end \/ length < max_count THEN length ELSE max_count
         IN  IF count > 0
             THEN {ptr + i : i \in 0..(count - 1)} \cup
                  LoadWritesFrom(m, n + 1, ptr + count + 1,
                                 past_end \/ count + 1 > max_count)
             ELSE {}

\* memset(dynamic_macro_buffer, 0, sizeof(dynamic_macro_buffer)), then the loop
MacroLoadWrites(m) == MacroIndexes \cup LoadWritesFrom(m, 0, 0, FALSE)

\* C39: for every 32-bit offset and size read_buffer and update_buffer touch
\* only indices 0..sizeof(dynamic_macro_buffer) - 1 of the macro buffer, and
\* so do save and load, from every reachable buffer and every set of
\* macros/NN files that earlier saves have left.
C39_MacroBufferBounds ==
    /\ \A offset \in Words, size \in Words : MacroCopied(offset, size) \subseteq MacroIndexes
    /\ MacroSaveReads(MacState) \subseteq MacroIndexes
    /\ MacroLoadWrites(MacState) \subseteq MacroIndexes

(***************************************************************************)
(* The eeconfig store: its calls as actions.                               *)
(***************************************************************************)
StoreVars == <<keyboard, fsVars, seqVars, mtVars, pathVars, encVars, macVars, KeymapRam,
               dynamic_keymap_scratch, store_loaded, store_clobbered, io_faulted,
               oob_layout>>
EeOthers == <<StoreVars, devVars, sfdpVars, konamiVars, lookupVars, lateVars>>

\* the store and the record of the call after a call that returned e
SetEe(e, call, args) ==
    /\ ee_dir' = e.dir
    /\ ee_files' = e.files
    /\ ee_last' = [call |-> call, ops |-> e.ops, out |-> e.out, ret |-> e.ret, args |-> args]

\* a call that reads only and returns ret
ReadEe(call, ret) ==
    /\ ee_last' = [call |-> call, ops |-> <<>>, out |-> <<>>, ret |-> ret, args |-> <<>>]
    /\ UNCHANGED <<ee_dir, ee_files>>

AsInt(b) == IF b THEN 1 ELSE 0

\* the ranges inside the data block
BlockRanges ==
    {range \in (0..(EeBlockSize - 1)) \X (1..EeBlockSize) : range[1] + range[2] <= EeBlockSize}

EeErase ==
    /\ SetEe(nvm_eeconfig_erase(EeState), "erase", <<>>)
    /\ ee_ref' = <<>>
    /\ UNCHANGED <<datablock, EeOthers>>

EeEnable ==
    /\ SetEe(nvm_eeconfig_enable(EeState), "enable", <<>>)
    /\ UNCHANGED <<ee_ref, datablock, EeOthers>>

EeDisable ==
    /\ SetEe(nvm_eeconfig_disable(EeState), "disable", <<>>)
    /\ ee_ref' = <<>>
    /\ UNCHANGED <<datablock, EeOthers>>

EeIsEnabled ==
    /\ ReadEe("is_enabled", AsInt(nvm_eeconfig_is_enabled(EeState)))
    /\ UNCHANGED <<ee_ref, datablock, EeOthers>>

EeIsDisabled ==
    /\ ReadEe("is_disabled", AsInt(nvm_eeconfig_is_disabled(EeState)))
    /\ UNCHANGED <<ee_ref, datablock, EeOthers>>

EeReadDebug ==
    /\ ReadEe("read_debug", nvm_eeconfig_read_debug(EeState))
    /\ UNCHANGED <<ee_ref, datablock, EeOthers>>

EeUpdateDebug ==
    /\ \E raw \in EeBytes :
          SetEe(nvm_eeconfig_update_debug(EeState, raw), "update_debug", <<raw>>)
    /\ UNCHANGED <<ee_ref, datablock, EeOthers>>

\* fs_update_block called directly, with a block of any length
EeUpdateBlock ==
    /\ \E size \in 1..MaxBlockLen :
          \E data \in [1..size -> EeBytes] :
             SetEe(UpdateBlock(EeState, EECONFIG_DEBUG, data), "update_block", data)
    /\ UNCHANGED <<ee_ref, datablock, EeOthers>>

InitKbDatablock ==
    /\ datablock.which = "kb"
    /\ SetEe(nvm_eeconfig_init_kb_datablock(EeState), "init_datablock", <<>>)
    /\ ee_ref' = Zeros(EECONFIG_KB_DATA_SIZE)
    /\ UNCHANGED <<datablock, EeOthers>>

InitUserDatablock ==
    /\ datablock.which = "user"
    /\ SetEe(nvm_eeconfig_init_user_datablock(EeState), "init_datablock", <<>>)
    /\ ee_ref' = Zeros(EECONFIG_USER_DATA_SIZE)
    /\ UNCHANGED <<datablock, EeOthers>>

\* the reference array after an update: untouched before the first init
RefWritten(offset, data) ==
    IF ee_ref = <<>> THEN <<>> ELSE WrittenAt(ee_ref, offset, data)

UpdateKbDatablock ==
    /\ datablock.which = "kb"
    /\ \E range \in BlockRanges :
          \E data \in [1..range[2] -> EeBytes] :
             /\ SetEe(nvm_eeconfig_update_kb_datablock(EeState, data, range[1]),
                      "update_datablock", <<range[1], range[2]>>)
             /\ ee_ref' = RefWritten(range[1], data)
    /\ UNCHANGED <<datablock, EeOthers>>

UpdateUserDatablock ==
    /\ datablock.which = "user"
    /\ \E range \in BlockRanges :
          \E data \in [1..range[2] -> EeBytes] :
             /\ SetEe(nvm_eeconfig_update_user_datablock(EeState, data, range[1]),
                      "update_datablock", <<range[1], range[2]>>)
             /\ ee_ref' = RefWritten(range[1], data)
    /\ UNCHANGED <<datablock, EeOthers>>

ReadKbDatablock ==
    /\ datablock.which = "kb"
    /\ \E range \in BlockRanges :
          SetEe(nvm_eeconfig_read_kb_datablock(EeState, range[1], range[2]),
                "read_datablock", <<range[1], range[2]>>)
    /\ UNCHANGED <<ee_ref, datablock, EeOthers>>

ReadUserDatablock ==
    /\ datablock.which = "user"
    /\ \E range \in BlockRanges :
          SetEe(nvm_eeconfig_read_user_datablock(EeState, range[1], range[2]),
                "read_datablock", <<range[1], range[2]>>)
    /\ UNCHANGED <<ee_ref, datablock, EeOthers>>

\* what an older build of the firmware left in ee/: the store enabled, the
\* version that build expected, and that build's block
OlderVersion == datablock.version + 1
LeftByOlderBuild ==
    [name \in EeNames |->
        IF name = EECONFIG_MAGIC THEN [bytes |-> LittleEndian(EECONFIG_MAGIC_NUMBER, 2)]
        ELSE IF name = VersionName THEN [bytes |-> LittleEndian(OlderVersion, 4)]
        ELSE IF name = BlockName THEN [bytes |-> [i \in 1..EeBlockSize |-> MaxEeByte]]
        ELSE NoFile]

\* The firmware's start-up has initialised the store (ee/ exists, as after
\* nvm_eeconfig_erase), or an older build has used it.
InitEe ==
    /\ keyboard = NarrowKeyboard /\ StoreStatics
    /\ FsStart /\ disk = "formatted" /\ MtStart /\ PathIdle
    /\ datablock \in EeBuilds
    /\ ee_last = NoEeCall
    /\ ee_ref = <<>>
    /\ ee_dir = TRUE
    /\ ee_files \in {[name \in EeNames |-> NoFile], LeftByOlderBuild}
    /\ DevStatics /\ SfdpStatics /\ KonamiStatics /\ LookupStatics /\ LateStatics

NextEe ==
    \/ EeErase
    \/ EeEnable
    \/ EeDisable
    \/ EeIsEnabled
    \/ EeIsDisabled
    \/ EeReadDebug
    \/ EeUpdateDebug
    \/ EeUpdateBlock
    \/ InitKbDatablock
    \/ InitUserDatablock
    \/ UpdateKbDatablock
    \/ UpdateUserDatablock
    \/ ReadKbDatablock
    \/ ReadUserDatablock

SpecEe == InitEe /\ [][NextEe]_vars

\* the blocks handed to fs_update_block
EeBlocks == UNION {[1..size -> EeBytes] : size \in 1..MaxBlockLen}

IssuedCalls(e, op) == {i \in 1..Len(e.ops) : e.ops[i].op = op}
OpensWith(e, name, mode) ==
    \E i \in 1..Len(e.ops) : e.ops[i] = Issued("open", name, mode)
Again(e) == [e EXCEPT !.ops = <<>>]

\* the first update of a file that is absent or differs from data opens it
\* with Write|Truncate and writes once
FirstUpdateWrites(name, data, first) ==
    (ee_files[name] = NoFile \/ BytesOf(ee_files[name]) # data)
        => /\ OpensWith(first, name, FS_WRITE + FS_TRUNCATE)
           /\ Cardinality(IssuedCalls(first, "write")) = 1

\* C21: for every file name and data, fs_update_block on a file that is
\* absent or different opens it with Write|Truncate and writes once, and the
\* same update repeated at once only opens the file for reading: no write,
\* no truncate, no delete.
C21_SecondUpdateIsReadOnly ==
    \A name \in EeNames, data \in EeBlocks :
        \A first \in {UpdateBlock(EeState, name, data)} :
            /\ FirstUpdateWrites(name, data, first)
            /\ \A second \in {UpdateBlock(Again(first), name, data)} :
                  /\ second.files = first.files
                  /\ \A i \in 1..Len(second.ops) :
                        \/ second.ops[i].op = "read"
                        \/ second.ops[i] = Issued("open", name, FS_READ)

\* C22: after fs_update_block(name, data, size) the file holds exactly the
\* size bytes of data, whatever it held and however long it was before (no
\* I/O error: the directory exists), and the write is skipped only when the
\* file already held exactly those bytes.
C22_UpdateStoresExactly ==
    \A name \in EeNames, data \in EeBlocks :
        \A after \in {UpdateBlock(EeState, name, data)} :
            /\ ee_dir => after.files[name] = [bytes |-> data]
            /\ IssuedCalls(after, "write") = {} /\ ee_dir => ee_files[name] = [bytes |-> data]

\* the read function of the block the build has
read_datablock(e, offset, length) ==
    IF datablock.which = "kb"
    THEN nvm_eeconfig_read_kb_datablock(e, offset, length)
    ELSE nvm_eeconfig_read_user_datablock(e, offset, length)

TouchesBlockFile(e) == \E i \in 1..Len(e.ops) : e.ops[i].name = BlockName

VersionAbsent == ee_files[VersionName] = NoFile
VersionDiffers ==
    /\ ee_files[VersionName] # NoFile
    /\ FromLittleEndian(BytesOf(ee_files[VersionName])) # datablock.version

\* the block file is missing, or too short for the range
ReadComesShort(offset, length) ==
    Len(BytesOf(ee_files[BlockName])) < offset + length

ZerosAndLength(r, length) == r.out = Zeros(length) /\ r.ret = length

\* C23 as stated: when the stored version is absent or differs from the
\* expected one, read_kb_datablock / read_user_datablock fills the output with
\* length zero bytes, returns length and does not open the block file; it also
\* returns zeros when the block file is missing or the read is short.
C23_AbsentOrStaleVersionReadsZeros ==
    \A range \in BlockRanges :
        \A r \in {read_datablock(EeState, range[1], range[2])} :
            /\ (VersionAbsent \/ VersionDiffers)
                  => ZerosAndLength(r, range[2]) /\ ~TouchesBlockFile(r)
            /\ ReadComesShort(range[1], range[2]) => ZerosAndLength(r, range[2])

\* C23, amended: an absent version file is read as version 0.  When the
\* version so read differs from the expected one the read gives length zero
\* bytes, returns length and does not open the block file; a build that
\* expects version 0 takes an absent version file as valid and opens the
\* block file.  A missing block file or a short read gives zeros as well.
C23_StaleVersionReadsZeros ==
    \A range \in BlockRanges :
        \A r \in {read_datablock(EeState, range[1], range[2])} :
            /\ (VersionDiffers \/ (VersionAbsent /\ datablock.version # 0))
                  => ZerosAndLength(r, range[2]) /\ ~TouchesBlockFile(r)
            /\ (VersionAbsent /\ datablock.version = 0) => TouchesBlockFile(r)
            /\ ReadComesShort(range[1], range[2]) => ZerosAndLength(r, range[2])

\* a read has just returned zeros for a block file that holds other bytes,
\* because the version on disk is not the expected one
C23_Witness ==
    /\ ee_last.call = "read_datablock"
    /\ VersionDiffers
    /\ ee_files[BlockName] # NoFile
    /\ \E i \in 1..Len(BytesOf(ee_files[BlockName])) : BytesOf(ee_files[BlockName])[i] # 0
    /\ ee_last.out = Zeros(ee_last.args[2])
    /\ ~TouchesBlockFile(ee_last)

\* the validity test of the block the build has
is_datablock_valid(e) ==
    IF datablock.which = "kb"
    THEN nvm_eeconfig_is_kb_datablock_valid(e)
    ELSE nvm_eeconfig_is_user_datablock_valid(e)

OthersGone(e) ==
    \A name \in EeNames \ {EECONFIG_MAGIC} :
        /\ e.files[name] = NoFile
        /\ fs_read_u8(e, name) = 0
        /\ fs_read_u16(e, name) = 0
        /\ fs_read_u32(e, name) = 0

DevOthers == <<StoreVars, eeVars, sfdpVars, konamiVars, lookupVars, lateVars>>

Answered(call, result, buffer_is_null) ==
    dev_out' = [call |-> call, ret |-> result.ret, addr |-> result.addr,
                buffer_is_null |-> buffer_is_null]

ValidateBlockAddress ==
    /\ dev_out = NoCallback
    /\ Answered("validate",
                fs_validate_block_address(dev_in.c, dev_in.block, dev_in.off, dev_in.size),
                FALSE)
    /\ UNCHANGED <<dev_in, DevOthers>>

DeviceRead ==
    /\ dev_out = NoCallback
    /\ \E buffer_is_null \in BOOLEAN, status \in FlashStatuses :
          Answered("read",
                   fs_device_read(dev_in.c, dev_in.block, dev_in.off, buffer_is_null,
                                  dev_in.size, status),
                   buffer_is_null)
    /\ UNCHANGED <<dev_in, DevOthers>>

DeviceProg ==
    /\ dev_out = NoCallback
    /\ \E buffer_is_null \in BOOLEAN, status \in FlashStatuses :
          Answered("prog",
                   fs_device_prog(dev_in.c, dev_in.block, dev_in.off, buffer_is_null,
                                  dev_in.size, status),
                   buffer_is_null)
    /\ UNCHANGED <<dev_in, DevOthers>>

DeviceErase ==
    /\ dev_out = NoCallback
    /\ \E status \in FlashStatuses :
          Answered("erase", fs_device_erase(dev_in.c, dev_in.block, status), FALSE)
    /\ UNCHANGED <<dev_in, DevOthers>>

InitDevice ==
    /\ keyboard = NarrowKeyboard /\ StoreStatics /\ EeStatics
    /\ FsStart /\ disk = "formatted" /\ MtStart /\ PathIdle
    /\ dev_in \in [c : DeviceConfigs, block : Words, off : Words, size : Words]
    /\ dev_out = NoCallback
    /\ SfdpStatics /\ KonamiStatics /\ LookupStatics /\ LateStatics

NextDevice ==
    \/ ValidateBlockAddress
    \/ DeviceRead
    \/ DeviceProg
    \/ DeviceErase

SpecDevice == InitDevice /\ [][NextDevice]_vars

\* the address of the request in exact arithmetic
ExactBase == dev_in.block * dev_in.c.block_size
ExactAddress == ExactBase + dev_in.off

\* the block is out of range, or the base, the address or the end of the
\* range does not fit in a word
OutOfRange ==
    \/ dev_in.block >= dev_in.c.block_count
    \/ ExactBase > UINT32_MAX
    \/ ExactAddress > UINT32_MAX
    \/ ExactAddress + dev_in.size > UINT32_MAX

\* C26: fs_validate_block_address returns Invalid when the block is not below
\* block_count or when block * block_size, that plus off, or that address
\* plus size does not fit in the word; otherwise it returns 0 and the output
\* address is exactly block * block_size + off.  Read and program also
\* return Invalid for a null buffer or size 0.
C26_BlockAddressArithmetic ==
    /\ dev_out.call = "validate" =>
          IF OutOfRange
          THEN dev_out.ret = LFS_ERR_INVAL
          ELSE dev_out.ret = 0 /\ dev_out.addr = <<ExactAddress>>
    /\ dev_out.call \in {"read", "prog"} =>
          /\ (dev_out.buffer_is_null \/ dev_in.size = 0) => dev_out.ret = LFS_ERR_INVAL
          /\ OutOfRange => dev_out.ret = LFS_ERR_INVAL
          /\ dev_out.addr # <<>> => dev_out.addr = <<ExactAddress>>

\* a block below block_count whose product with block_size does not fit in
\* the word has been rejected
C26_Witness ==
    /\ dev_out.call = "validate"
    /\ dev_in.block < dev_in.c.block_count
    /\ ExactBase > UINT32_MAX
    /\ dev_out.ret = LFS_ERR_INVAL

(***************************************************************************)
(* The SFDP density field decoded for every dword tried.                   *)
(***************************************************************************)
\* 0..MaxDensity, and the fields of 8 Mbit and 1 Gbit parts that give their
\* size in bits
Densities == (0..MaxDensity) \cup {2 ^ 23 - 1, 2 ^ 30 - 1}

ParseDword2 ==
    /\ sfdp_out = NotDecoded
    /\ sfdp_out' \in DecodeDensity(sfdp_in.density, sfdp_in.is_high_density)
    /\ UNCHANGED <<sfdp_in, StoreVars, eeVars, devVars, konamiVars, lookupVars, lateVars>>

InitSfdp ==
    /\ keyboard = NarrowKeyboard /\ StoreStatics /\ EeStatics /\ DevStatics
    /\ KonamiStatics /\ LookupStatics /\ LateStatics
    /\ FsStart /\ disk = "formatted" /\ MtStart /\ PathIdle
    /\ sfdp_in \in [density : Densities, is_high_density : BOOLEAN]
    /\ sfdp_out = NotDecoded

NextSfdp == ParseDword2

SpecSfdp == InitSfdp /\ [][NextSfdp]_vars

\* the exact bit count fits in 32 bits, and then it is this word
BitsFit == sfdp_in.is_high_density => sfdp_in.density < 32
ExactBits ==
    IF sfdp_in.is_high_density THEN Pow2Word(sfdp_in.density) ELSE ToWord(sfdp_in.density + 1)

\* the exact byte count, the bit count divided by 8, fits in 32 bits, and
\* then it is this word
BytesFit == sfdp_in.is_high_density => sfdp_in.density < 32 + 3
ExactBytes ==
    IF ~sfdp_in.is_high_density THEN ToWord((sfdp_in.density + 1) \div 8)
    ELSE IF sfdp_in.density < 3 THEN ToWord(0)
    ELSE Pow2Word(sfdp_in.density - 3)

\* C27: for every density d the decoded bit count is 2^d with
\* is_high_density set and d + 1 otherwise, and the byte count is the bit
\* count divided by 8, exact whenever the byte count fits in 32 bits:
\* d = 0x17 with the flag clear gives 24 bits and 3 bytes, d = 0x19 with the
\* flag set gives 2^25 bits and 4 MiB.
C27_DensityDecoding ==
    sfdp_out # NotDecoded =>
        /\ BytesFit => sfdp_out.bytes = ExactBytes
        /\ BitsFit => sfdp_out.bits = ExactBits
        /\ sfdp_in = [density |-> 23, is_high_density |-> FALSE]
              => sfdp_out = [bits |-> ToWord(24), bytes |-> ToWord(3)]
        /\ sfdp_in = [density |-> 25, is_high_density |-> TRUE]
              => sfdp_out = [bits |-> ToWord(2 ^ 25), bytes |-> ToWord(4 * 1024 * 1024)]

(***************************************************************************)
(* The Konami code: key events.                                            *)
(***************************************************************************)
\* the layer-switching keys: MO, DF, TG, OSL, TT, TO and LM
LayerSwitching(keycode) == keycode.range \in IgnoredRanges \cup OtherLayerRanges

\* The code as typed: konami_seen keys of it have been released in order,
\* the first of them with konami_index = 0, with nothing in between but key
\* presses and releases of layer-switching keys.  Any other release starts
\* over.
SeenAfter(event) ==
    IF event.pressed \/ LayerSwitching(event.keycode) THEN konami_seen
    ELSE IF /\ event.keycode = Basic(konami_code[konami_seen + 1])
            /\ konami_seen > 0 \/ konami_index = 0
         THEN (konami_seen + 1) % Len(konami_code)
         ELSE 0

\* the key a release stands for: the tap keycode of a mod-tap, layer-tap or
\* swap-hands key, Enter for the other Enter keys
KeyOf(keycode) ==
    IF keycode.kc \in {"KC_KP_ENTER", "KC_RETURN", "QK_SPACE_CADET_RIGHT_SHIFT_ENTER"}
    THEN "KC_ENTER"
    ELSE keycode.kc

\* a counted release: no key press, no release of a layer-switching key (a
\* layer-tap key that was held switches layers)
CountedRelease(event) ==
    /\ ~event.pressed
    /\ ~LayerSwitching(event.keycode)
    /\ ~(event.keycode.range = "QK_LAYER_TAP" /\ event.tap_count = 0)

\* the last n keys of history are the first n keys of the code
EndsWithStartOfCode(history, n) ==
    /\ n <= Len(history)
    /\ SubSeq(history, Len(history) - n + 1, Len(history)) = SubSeq(konami_code, 1, n)

\* The code as last typed: of the counted releases so far the most recent
\* konami_typed, and no more, are the start of the code.  It follows from
\* the value before and the key released.
TypedAfter(event) ==
    IF ~CountedRelease(event) THEN konami_typed
    ELSE LET history == SubSeq(konami_code, 1, konami_typed) \o <<KeyOf(event.keycode)>>
             fits == {n \in 0..Len(konami_code) : EndsWithStartOfCode(history, n)}
         IN  CHOOSE n \in fits : \A m \in fits : m <= n

ProcessRecord(event) ==
    /\ konami_event' = event
    /\ konami_before' = konami_index
    /\ \E result \in {process_record_konami_code(konami_index, event.keycode, event)} :
          /\ konami_index' = result.index
          /\ handler_called' = result.called
    /\ konami_seen' = SeenAfter(event)
    /\ konami_typed' = TypedAfter(event)
    /\ UNCHANGED <<StoreVars, eeVars, devVars, sfdpVars, lookupVars, lateVars>>

KeyPressed == \E event \in KonamiEvents : event.pressed /\ ProcessRecord(event)
KeyReleased == \E event \in KonamiEvents : ~event.pressed /\ ProcessRecord(event)

InitKonami ==
    /\ keyboard = NarrowKeyboard /\ StoreStatics /\ EeStatics /\ DevStatics /\ SfdpStatics
    /\ FsStart /\ disk = "formatted" /\ MtStart /\ PathIdle
    /\ KonamiStatics /\ LookupStatics /\ LateStatics

NextKonami == KeyPressed \/ KeyReleased

SpecKonami == InitKonami /\ [][NextKonami]_vars

\* the last event resolves to a release of Enter
EnterReleased ==
    /\ ~konami_event.pressed
    /\ \/ konami_event.keycode.kc = "KC_ENTER"
       \/ konami_event.keycode \in {Basic("KC_KP_ENTER"), Basic("KC_RETURN"),
                                     Basic("QK_SPACE_CADET_RIGHT_SHIFT_ENTER")}

\* C28: from konami_index = 0, releasing Up, Up, Down, Down, Left, Right,
\* Left, Right, B, A, Enter in order, with only key presses and releases of
\* layer-switching keys in between, keeps the progress, calls
\* konami_code_handler exactly once, on the release of Enter, and resets the
\* progress to 0; key presses never change the progress, and the handler is
\* called on no other event.
C28_KonamiCode ==
    /\ konami_seen > 0 => konami_index = konami_seen /\ ~handler_called
    /\ (~konami_event.pressed /\ konami_event.keycode = Basic("KC_ENTER")
            /\ konami_seen = 0 /\ konami_before > 0)
          => (konami_before = Len(konami_code) - 1 => handler_called /\ konami_index = 0)
    /\ konami_event.pressed => konami_index = konami_before /\ ~handler_called
    /\ handler_called => EnterReleased /\ konami_before = Len(konami_code) - 1

\* C38: after any history of key events, whenever the eleven most recent
\* counted releases (key presses and releases of layer-switching keys left
\* out) are Up, Up, Down, Down, Left, Right, Left, Right, B, A, Enter, the
\* handler is called on the last of them; konami_index stays within 0..10.
C38_KonamiFromAnyState ==
    /\ (CountedRelease(konami_event) /\ konami_typed = Len(konami_code)) => handler_called
    /\ konami_index \in 0..(Len(konami_code) - 1)

(***************************************************************************)
(* The keycode lookup applied to every table and every name.               *)
(***************************************************************************)
NameChars == 1..MaxChar
LookupNames == UNION {[1..n -> NameChars] : n \in 1..MaxNameLen}

\* the order of the generated table: strcmp, a name before those it begins
RECURSIVE NameBefore(_, _)
NameBefore(a, b) ==
    IF b = <<>> THEN FALSE
    ELSE IF a = <<>> THEN TRUE
    ELSE IF Head(a) # Head(b) THEN Head(a) < Head(b)
    ELSE NameBefore(Tail(a), Tail(b))

KeycodeTables ==
    {table \in UNION {[1..n -> LookupNames] : n \in 1..MaxTableLen} :
        \A i \in 1..(Len(table) - 1) : NameBefore(table[i], table[i + 1])}

LookupKeycode ==
    /\ lookup_out = NotLookedUp
    /\ lookup_out' \in LookupOutcomes(lookup_keycode_by_name(lookup_name))
    /\ UNCHANGED <<keycode_names, lookup_name, StoreVars, eeVars, devVars, sfdpVars,
                   konamiVars, lateVars>>

InitLookup ==
    /\ keyboard = NarrowKeyboard /\ StoreStatics /\ EeStatics /\ DevStatics /\ SfdpStatics
    /\ KonamiStatics /\ LateStatics
    /\ FsStart /\ disk = "formatted" /\ MtStart /\ PathIdle
    /\ keycode_names \in KeycodeTables
    /\ lookup_name \in LookupNames \cup {<<>>}
    /\ lookup_out = NotLookedUp

NextLookup == LookupKeycode

SpecLookup == InitLookup /\ [][NextLookup]_vars

\* the position of the name in the table, 0-based, or no position
PositionsOf(name) == {i \in 0..(KeycodeCount - 1) : keycode_names[i + 1] = name}

\* C29: for every name of the sorted table, at every position including the
\* first, the last and the one before the last, lookup_keycode_by_name
\* returns the value of the entry.
C29_LookupFindsEveryEntry ==
    lookup_out # NotLookedUp =>
        \A i \in PositionsOf(lookup_name) :
            lookup_out.returned /\ lookup_out.value = KeycodeValue(i)

\* C30: for every name that is not in the table (before the first entry,
\* after the last, between entries, a strict prefix of an entry) the lookup
\* terminates, returns 0 and never reads keycode_offsets outside
\* 0..count-1.
C30_UnknownNameGivesZero ==
    (lookup_out # NotLookedUp /\ PositionsOf(lookup_name) = {}) =>
        /\ lookup_out.returned
        /\ lookup_out.value = 0
        /\ lookup_out.indexed \subseteq 0..(KeycodeCount - 1)

(***************************************************************************)
(* The keymap and encoder-map stores used from two execution contexts.     *)
(* A context runs one save or load at a time; a step is what the operation *)
(* does up to its next call into the filesystem, which the filesystem      *)
(* mutex makes atomic.  Between two steps of a context the other may run.  *)
(* The setters are called from the main loop.                              *)
(***************************************************************************)
StoreOps == {"keymap save", "encoder save", "keymap load", "encoder load"}
IsSave(op) == op \in {"keymap save", "encoder save"}
OnKeymap(op) == op \in {"keymap save", "keymap load"}

StoreOf(op) == IF OnKeymap(op) THEN KmState ELSE EncState

SetStore(op, x) ==
    IF OnKeymap(op)
    THEN SetKmState(x) /\ UNCHANGED encVars
    ELSE SetEncRam(x) /\ dynamic_keymap_scratch' = x.scratch /\ UNCHANGED KeymapRam

\* the number of 16-bit words of the scratch that save submits for the layer
SavedWords(op, x, layer) ==
    IF OnKeymap(op)
    THEN IF MATRIX_ROWS * MATRIX_COLS * 2 <= 4 * x.altered_count[layer]
         THEN MATRIX_ROWS * MATRIX_COLS ELSE 2 * x.altered_count[layer]
    ELSE IF NUM_ENCODERS * NUM_DIRECTIONS * 2 <= 4 * x.altered_count[layer]
         THEN NUM_ENCODERS * NUM_DIRECTIONS ELSE 2 * x.altered_count[layer]

\* save up to its call of fs_update_block: the mode byte and the layer, or
\* the override entries, are put into the scratch
FillScratch(op, x, layer) ==
    IF OnKeymap(op)
    THEN IF MATRIX_ROWS * MATRIX_COLS * 2 <= 4 * x.altered_count[layer]
         THEN [x EXCEPT !.scratch.write_mode = 0,
                        !.scratch.words = [i \in ScratchWords |->
                            IF i \in Keys THEN x.cache[layer][i] ELSE @[i]]]
         ELSE FillOverrides([x EXCEPT !.scratch.write_mode = 1], layer, 0, 0)
    ELSE IF NUM_ENCODERS * NUM_DIRECTIONS * 2 <= 4 * x.altered_count[layer]
         THEN [x EXCEPT !.scratch.write_mode = 0,
                        !.scratch.words = [i \in ScratchWords |->
                            IF i \in Positions THEN x.cache[layer][i] ELSE @[i]]]
         ELSE FillEncoderOverrides([x EXCEPT !.scratch.write_mode = 1], layer, 0, 0)

ResetLayer(op, x, layer) ==
    IF OnKeymap(op)
    THEN nvm_dynamic_keymap_reset_cache_layer_to_raw(x, layer)
    ELSE nvm_dynamic_encodermap_reset_cache_layer_to_raw(x, layer)

\* load after its fs_read: what it does with the scratch
ConsumeScratch(op, x, layer, nwords) ==
    IF OnKeymap(op) THEN ApplyScratch(x, layer, nwords)
    ELSE IF x.scratch.write_mode = 0 THEN ApplyEncoderFullFrom(x, layer, 0)
    ELSE ApplyEncoderOverridesFrom(x, layer, 0, (2 * nwords) \div 4)

LoadEnd(op, x, outcome) ==
    IF LayerStateBits <= DYNAMIC_KEYMAP_LAYER_COUNT THEN x
    ELSE IF OnKeymap(op) THEN ResetOutOfBounds(x, outcome)
    ELSE ResetEncoderOutOfBounds(x, outcome)

CtxOthers == <<keyboard, fsVars, seqVars, mtVars, pathVars, macVars, io_faulted,
               eeVars, devVars, sfdpVars, konamiVars, lookupVars, eofVars, tailVars>>
StoreFlags == <<store_loaded, store_clobbered, oob_layout>>
StoreRam == <<KeymapRam, encVars, dynamic_keymap_scratch>>

At(c, next_pc, layer, nwords, built) ==
    ctx' = [ctx EXCEPT ![c] = [op |-> ctx[c].op, pc |-> next_pc, layer |-> layer,
                               nwords |-> nwords, built |-> built]]

\* the context calls save or load; save returns at once when nothing is dirty
CallStore(c) ==
    /\ ~Halted
    /\ ctx[c].pc = "idle"
    /\ \E op \in StoreOps :
          /\ IsSave(op) => StoreOf(op).dirty # {}
          /\ ctx' = [ctx EXCEPT ![c] = [op |-> op, pc |-> "loop", layer |-> 0,
                                        nwords |-> 0, built |-> <<>>]]
    /\ UNCHANGED <<StoreRam, StoreFlags, CtxOthers>>

\* one round of the layer loop of save, up to fs_update_block
SaveStep(c) ==
    /\ ~Halted
    /\ ctx[c].pc = "loop" /\ IsSave(ctx[c].op)
    /\ \E x \in {StoreOf(ctx[c].op)} :
          IF ctx[c].layer >= LayerStateBits
          THEN /\ SetStore(ctx[c].op, [x EXCEPT !.dirty = {}])
               /\ ctx' = [ctx EXCEPT ![c] = IdleContext]
          ELSE IF ctx[c].layer \notin x.dirty
          THEN /\ At(c, "loop", ctx[c].layer + 1, 0, <<>>)
               /\ UNCHANGED StoreRam
          ELSE IF x.altered_count[ctx[c].layer] = 0
          THEN /\ SetStore(ctx[c].op,
                      [x EXCEPT !.files[ctx[c].layer] = DeleteFile(@, "none")])
               /\ At(c, "loop", ctx[c].layer + 1, 0, <<>>)
          ELSE \E filled \in {FillScratch(ctx[c].op, x, ctx[c].layer)} :
                  /\ SetStore(ctx[c].op, filled)
                  /\ At(c, "filled", ctx[c].layer,
                        SavedWords(ctx[c].op, x, ctx[c].layer),
                        ScratchBlock(filled, SavedWords(ctx[c].op, x, ctx[c].layer)))
    /\ UNCHANGED <<StoreFlags, CtxOthers>>

\* fs_update_block(filename, &dynamic_keymap_scratch, size)
SubmitStep(c) ==
    /\ ~Halted
    /\ ctx[c].pc = "filled"
    /\ SetStore(ctx[c].op,
           SubmitScratch(StoreOf(ctx[c].op), ctx[c].layer, ctx[c].nwords, "none"))
    /\ At(c, "loop", ctx[c].layer + 1, 0, <<>>)
    /\ UNCHANGED <<StoreFlags, CtxOthers>>

\* one round of the layer loop of load, up to the return of fs_read; past
\* the layers the arrays have, the rounds left reset out of bounds
LoadStep(c) ==
    /\ ~Halted
    /\ ctx[c].pc = "loop" /\ ~IsSave(ctx[c].op)
    /\ \E x \in {StoreOf(ctx[c].op)} :
          IF ctx[c].layer >= DYNAMIC_KEYMAP_LAYER_COUNT
          THEN \E outcome \in LayoutChoices :
                  /\ SetStore(ctx[c].op, LoadEnd(ctx[c].op, x, outcome))
                  /\ oob_layout' = outcome
                  /\ store_clobbered' = (LayerStateBits > DYNAMIC_KEYMAP_LAYER_COUNT
                                           /\ outcome.hit # "nothing")
                  /\ store_loaded' = TRUE
                  /\ ctx' = [ctx EXCEPT ![c] = IdleContext]
          ELSE /\ UNCHANGED StoreFlags
               /\ IF x.files[ctx[c].layer] = NoFile
                  THEN /\ SetStore(ctx[c].op, ResetLayer(ctx[c].op, x, ctx[c].layer))
                       /\ At(c, "loop", ctx[c].layer + 1, 0, <<>>)
                  ELSE \E read \in {ReadIntoScratch(ResetLayer(ctx[c].op, x, ctx[c].layer),
                                                    x.files[ctx[c].layer])} :
                          /\ SetStore(ctx[c].op, read)
                          /\ At(c, "read", ctx[c].layer, Len(x.files[ctx[c].layer].words),
                                ScratchBlock(read, Len(x.files[ctx[c].layer].words)))
    /\ UNCHANGED CtxOthers

\* load applies the scratch to the cache
ApplyStep(c) ==
    /\ ~Halted
    /\ ctx[c].pc = "read"
    /\ SetStore(ctx[c].op,
           ConsumeScratch(ctx[c].op, StoreOf(ctx[c].op), ctx[c].layer, ctx[c].nwords))
    /\ At(c, "loop", ctx[c].layer + 1, 0, <<>>)
    /\ UNCHANGED <<StoreFlags, CtxOthers>>

\* the setters, called from the main loop between its operations
SetKeycode == ctx["main"].pc = "idle" /\ UpdateKeycode
SetEncoder == ctx["main"].pc = "idle" /\ UpdateEncoder

\* a build with an encoder map, one key and one encoder
OneEncoderKeyboard == [layers |-> 1, cols |-> 1, encoders |-> 1]

InitContexts ==
    keyboard = OneEncoderKeyboard /\ KmStatics /\ FsStart /\ disk = "formatted" /\ MtStart /\ PathIdle

NextContexts ==
    \/ SetKeycode
    \/ SetEncoder
    \/ \E c \in Contexts : CallStore(c)
    \/ \E c \in Contexts : SaveStep(c)
    \/ \E c \in Contexts : SubmitStep(c)
    \/ \E c \in Contexts : LoadStep(c)
    \/ \E c \in Contexts : ApplyStep(c)

SpecContexts == InitContexts /\ [][NextContexts]_vars

\* C33: with saves and loads of the two stores running in the two contexts,
\* from the moment an operation has filled the scratch (save) or read a file
\* into it (load) until it submits or applies it, the scratch holds what that
\* operation put there: no other operation modifies it in between.
C33_ScratchIsPrivate ==
    \A c \in Contexts :
        ctx[c].pc \in {"filled", "read"} =>
            ScratchBlock(KmState, ctx[c].nwords) = ctx[c].built

(***************************************************************************)
(* fs_is_eof asked about every descriptor, over every handle table.        *)
(***************************************************************************)
FileSizes == 0..MaxFileSize
FileHandles(fd) == [fd : {fd}, type : {"FILE"}, pos : FileSizes, size : FileSizes]
DirHandle(fd) == [fd |-> fd, type |-> "DIR", pos |-> 0, size |-> 0]
ClosedHandle == [fd |-> INVALID_FILESYSTEM_FD, type |-> "EMPTY", pos |-> 0, size |-> 0]

\* slot 0 is empty or holds descriptor 4, a file or a directory; the slots
\* after it are empty or hold the file with descriptor 5
EofTables ==
    {t \in [Slots -> {ClosedHandle, DirHandle(FIRST_VALID_FD)}
                        \cup FileHandles(FIRST_VALID_FD) \cup FileHandles(FIRST_VALID_FD + 1)] :
        \A i \in Slots :
            /\ i = 0 => t[i].fd # FIRST_VALID_FD + 1
            /\ i # 0 => t[i].fd # FIRST_VALID_FD}

EofFds == {INVALID_FILESYSTEM_FD, FIRST_VALID_FD, FIRST_VALID_FD + 1, FIRST_VALID_FD + 2}

IsEof ==
    /\ ~eof_out.answered
    /\ \E r \in {fs_is_eof_nolock(eof_in, eof_in.fd, eof_in.fault)} :
          eof_out' = [answered |-> TRUE, handles |-> r.x.handles, ret |-> r.ret]
    /\ UNCHANGED <<eof_in, StoreVars, eeVars, devVars, sfdpVars, konamiVars, lookupVars, ctx,
                   tailVars>>

InitEof ==
    /\ keyboard = NarrowKeyboard /\ StoreStatics /\ EeStatics /\ DevStatics /\ SfdpStatics
    /\ KonamiStatics /\ LookupStatics /\ ContextStatics /\ TailStatics
    /\ FsStart /\ disk = "formatted" /\ MtStart /\ PathIdle
    /\ eof_in \in [handles : EofTables, mount_count : {0, 1}, fd : EofFds, fault : EofFaults]
    /\ eof_out = NoEofAnswer

NextEof == IsEof

SpecEof == InitEof /\ [][NextEof]_vars

\* the descriptor asked about is an open file
AsksOpenFile == MatchingSlots(eof_in.handles, eof_in.fd, "FILE") # {}
AskedFile == eof_in.handles[MinOf(MatchingSlots(eof_in.handles, eof_in.fd, "FILE"))]

\* C34: for an open file of a mounted filesystem and no failing call,
\* fs_is_eof returns true exactly when the position equals the size and
\* leaves the position where it was; for a descriptor that is not an open
\* file, an unmounted filesystem, or a failing tell or seek it returns true
\* and changes nothing.
C34_IsEofLeavesPosition ==
    eof_out.answered =>
        /\ eof_out.handles = eof_in.handles
        /\ IF AsksOpenFile /\ eof_in.mount_count > 0 /\ eof_in.fault = "none"
           THEN eof_out.ret = (AskedFile.pos = AskedFile.size)
           ELSE eof_out.ret = TRUE

(***************************************************************************)
(* fs_rmdir on whole trees.  The device holds a chain of directories down  *)
(* to FS_MAX_DIR_DEPTH, all with a one-character name or all with a name   *)
(* of LFS_NAME_MAX characters, a file with a short or a longest name in    *)
(* one of them, and possibly a directory next to the chain.  The           *)
(* environment mounts and opens directory handles, then removes            *)
(* directories of the tree one after the other, named with or without a    *)
(* leading slash.                                                          *)
(***************************************************************************)
ShortDir == <<"a">>
LongDir == [i \in 1..LFS_NAME_MAX |-> "a"]
OtherDir == <<"d">>
ShortFile == <<"f">>
LongFile == [i \in 1..LFS_NAME_MAX |-> "f"]

\* the directories name, name/name, ... down to depth d
DirChain(name, d) == {[i \in 1..k |-> name] : k \in 1..d}

\* entries that may be present besides the chain: a file in every directory,
\* a directory next to the chain where the depth limit allows one
ExtraFiles(name, d) ==
    {Append(n, f) : n \in DirChain(name, d) \cup {<<>>}, f \in {ShortFile, LongFile}}
ExtraDirs(name, d) ==
    {Append(n, OtherDir) : n \in {m \in DirChain(name, d) \cup {<<>>} : Len(m) < FS_MAX_DIR_DEPTH}}

TreeOf(dirs, files) ==
    [n \in dirs \cup files |-> IF n \in dirs THEN "dir" ELSE "file"]

RmdirTrees ==
    {TreeOf(DirChain(name, FS_MAX_DIR_DEPTH) \cup xd, xf) :
        name \in {ShortDir, LongDir},
        xd \in {x \in SUBSET ExtraDirs(ShortDir, FS_MAX_DIR_DEPTH) \cup
                      SUBSET ExtraDirs(LongDir, FS_MAX_DIR_DEPTH) : Cardinality(x) <= 1},
        xf \in {x \in SUBSET ExtraFiles(ShortDir, FS_MAX_DIR_DEPTH) \cup
                      SUBSET ExtraFiles(LongDir, FS_MAX_DIR_DEPTH) : Cardinality(x) = 1}}

\* a tree of the device: every entry lies in a directory of the tree
WellFormed(tr) == \A n \in DOMAIN tr : IsDir(tr, Parent(n))

\* the path string of a node, without a leading slash
RECURSIVE JoinPath(_)
JoinPath(node) ==
    IF Len(node) = 0 THEN <<>>
    ELSE IF Len(node) = 1 THEN node[1]
    ELSE JoinPath(Parent(node)) \o <<"/">> \o node[Len(node)]

\* the paths the caller passes to fs_rmdir: the root and every directory of
\* the tree, relative or with a leading slash
RmdirPaths(tr) ==
    {<<"/">>} \cup {JoinPath(n) : n \in {m \in DOMAIN tr : tr[m] = "dir"}}
              \cup {<<"/">> \o JoinPath(n) : n \in {m \in DOMAIN tr : tr[m] = "dir"}}

\* fs_rmdir(path, recursive), recorded with the state it found
RmdirTree ==
    \E path \in RmdirPaths(tree), recursive \in BOOLEAN :
        \E c \in {MakeCall("rmdir", path, 0, 0, recursive)} :
            \E r \in {PublicCall(c, FsState)} :
                /\ SetFsState(r.s)
                /\ last' = [type |-> RetType(c), ret |-> r.ret, rejected |-> ~Gate(c),
                            locked |-> Gate(c)]
                /\ hist' = HistAfter(c, r.ret)
                /\ rmdir_last' = [called |-> TRUE, path |-> path, recursive |-> recursive,
                                  ret |-> r.ret, tree |-> tree, fs_handles |-> fs_handles,
                                  mount_count |-> mount_count, levels |-> r.s.deepest + 1]
                /\ UNCHANGED <<unbalanced, mtVars, pathVars, keyboard, encVars, macVars,
                               KeymapRam, dynamic_keymap_scratch, store_loaded,
                               store_clobbered, io_faulted, oob_layout, eeVars, devVars,
                               sfdpVars, konamiVars, lookupVars, ctx, eofVars, probeVars>>

InitRmdir ==
    /\ mount_count = 0
    /\ current_fd = FIRST_VALID_FD
    /\ fs_handles = ClearedHandles
    /\ disk = "formatted"
    /\ tree \in {t \in RmdirTrees : WellFormed(t)}
    /\ issued = <<>>
    /\ stack_overflow = FALSE
    /\ last = NoLast
    /\ hist = NoHist
    /\ unbalanced = FALSE
    /\ MtStart /\ PathIdle /\ KmStart

NextRmdir ==
    \/ RmdirTree
    \/ ~rmdir_last.called /\ fs_mount
    \/ ~rmdir_last.called /\ fs_opendir

SpecRmdir == InitRmdir /\ [][NextRmdir]_vars

\* the entries of tr at or below the node
Below(tr, node) == {n \in DOMAIN tr : Len(n) >= Len(node) /\ SubSeq(n, 1, Len(node)) = node}

\* the last call was fs_rmdir(path, true) on a directory that existed
RemovedTree ==
    /\ rmdir_last.called /\ rmdir_last.recursive
    /\ IsDir(rmdir_last.tree, Segments(rmdir_last.path))

\* C35: fs_rmdir(path, true) on an existing directory tree within the depth
\* limits returns true with every file and subdirectory below path and path
\* itself removed, enters itself no deeper than FS_MAX_FILE_DEPTH + 1 levels,
\* leaves the handle table and mount_count as it found them; when it returns
\* false, path has not been deleted.
C35_RmdirRemovesTree ==
    RemovedTree =>
        /\ rmdir_last.ret = TRUE
        /\ Below(tree, Segments(rmdir_last.path)) = {}
        /\ rmdir_last.levels <= FS_MAX_FILE_DEPTH + 1
        /\ fs_handles = rmdir_last.fs_handles
        /\ mount_count = rmdir_last.mount_count
        /\ (~rmdir_last.ret => NodeExists(tree, Segments(rmdir_last.path)))

(***************************************************************************)
(* sfdp_init (sfdp_flash.c).  The flash part answers a read of its SFDP    *)
(* area from sfdp_dev.  Every call of the SPI driver is counted; the call  *)
(* numbered fail_at returns an error (spi_start returns false), -1 for no  *)
(* failure.  The capability bits taken from the dwords and the debug       *)
(* output are left out.                                                    *)
(***************************************************************************)
SFDP_SIGNATURE == 1346651731      \* 0x50444653, "SFDP"
RESERVED_0xFF == 255
\* sizeof(sfdp_header_t), sizeof(sfdp_parameter_header_t), sizeof(sfdp_dword_t)
SizeofHeader == 8
SizeofParameterHeader == 8
SizeofDword == 4

Counted(b) == [b EXCEPT !.calls = @ + 1, !.failed = @ \/ (b.calls = b.fail_at)]
SpiFails(b) == b.calls = b.fail_at

\* spi_flash_start: false when the transaction could not be started
spi_flash_start(b) ==
    IF SpiFails(b)
    THEN [b |-> Counted(b), ok |-> FALSE]
    ELSE [b |-> [Counted(b) EXCEPT !.active = TRUE, !.started = @ + 1], ok |-> TRUE]

\* spi_write, spi_transmit, spi_receive: status < 0 on failure
spi_transfer(b) == [b |-> Counted(b), ok |-> ~SpiFails(b)]

spi_stop(b) == [b EXCEPT !.active = FALSE, !.stopped = @ + 1]

read_jedec_id(b) ==
    LET st == spi_flash_start(b)
        wr == spi_transfer(st.b)
        rx == spi_transfer(wr.b)
    IN  IF ~st.ok THEN [b |-> st.b, ok |-> FALSE]
        ELSE IF ~wr.ok THEN [b |-> spi_stop(wr.b), ok |-> FALSE]
        ELSE IF ~rx.ok THEN [b |-> spi_stop(rx.b), ok |-> FALSE]
        ELSE [b |-> spi_stop(rx.b), ok |-> TRUE]

\* variant: a failed receive returns without deasserting chip select
ReadSfdpLeavingBusOpen(b, addr) ==
    LET st == spi_flash_start(b)
        tx == spi_transfer(st.b)
        rx == spi_transfer(tx.b)
    IN  IF ~st.ok THEN [b |-> st.b, ok |-> FALSE]
        ELSE IF ~tx.ok THEN [b |-> spi_stop(tx.b), ok |-> FALSE]
        ELSE IF ~rx.ok THEN [b |-> rx.b, ok |-> FALSE]
        ELSE [b |-> [spi_stop(rx.b) EXCEPT !.reads = Append(@, addr)], ok |-> TRUE]

\* read_sfdp_data(addr, data, length); reads lists the addresses read
read_sfdp_data(b, addr) ==
    LET st == spi_flash_start(b)
        tx == spi_transfer(st.b)
        rx == spi_transfer(tx.b)
    IN  IF ~st.ok THEN [b |-> st.b, ok |-> FALSE]
        ELSE IF ~tx.ok THEN [b |-> spi_stop(tx.b), ok |-> FALSE]
        ELSE IF ~rx.ok THEN [b |-> spi_stop(rx.b), ok |-> FALSE]
        ELSE [b |-> [spi_stop(rx.b) EXCEPT !.reads = Append(@, addr)], ok |-> TRUE]

\* what the part holds at the address of a parameter header; an address that
\* is not the start of one reads as data without the reserved byte
ParameterHeaderAt(dev, addr) ==
    IF \E n \in DOMAIN dev.params : addr = SizeofHeader + (n - 1) * SizeofParameterHeader
    THEN dev.params[((addr - SizeofHeader) \div SizeofParameterHeader) + 1]
    ELSE [reserved_0xFF |-> 0, length |-> 0, table_pointer |-> 0]

\* sfdp_parse_parameter_table: the loop from dword n on
RECURSIVE ParseTableFrom(_, _, _, _)
ParseTableFrom(b, table_pointer, length, n) ==
    IF n > length THEN [b |-> b, ok |-> TRUE]
    ELSE LET r == read_sfdp_data(b, table_pointer + (n - 1) * SizeofDword)
         IN  IF ~r.ok THEN [b |-> r.b, ok |-> FALSE]
             ELSE ParseTableFrom(r.b, table_pointer, length, n + 1)

sfdp_parse_parameter_table(b, table_pointer, length) ==
    ParseTableFrom(b, table_pointer, length, 1)

\* the loop of sfdp_init over the parameter headers, from header n on
RECURSIVE ParameterHeadersFrom(_, _, _)
ParameterHeadersFrom(b, dev, n) ==
    IF ~(n < dev.header_count + 1) THEN [b |-> b, ok |-> TRUE]
    ELSE LET addr == SizeofHeader + n * SizeofParameterHeader
             r == read_sfdp_data(b, addr)
             param == ParameterHeaderAt(dev, addr)
             t == sfdp_parse_parameter_table(r.b, param.table_pointer, param.length)
         IN  IF ~r.ok \/ param.reserved_0xFF # RESERVED_0xFF
             THEN [b |-> r.b, ok |-> FALSE]
             ELSE IF n = 0
                  THEN IF ~t.ok THEN [b |-> t.b, ok |-> FALSE]
                       ELSE ParameterHeadersFrom(t.b, dev, n + 1)
                  ELSE ParameterHeadersFrom(r.b, dev, n + 1)

\* sfdp_init: [rt |-> sfdp after, b |-> the bus after, ret |-> the result]
sfdp_init(rt, dev, b) ==
    IF ~rt.was_checked
    THEN LET j == read_jedec_id(b)
             h == read_sfdp_data(j.b, 0)
             p == ParameterHeadersFrom(h.b, dev, 0)
         IN  IF ~j.ok THEN [rt |-> rt, b |-> j.b, ret |-> FALSE]
             ELSE IF ~h.ok \/ dev.reserved_0xFF # RESERVED_0xFF
             THEN [rt |-> rt, b |-> h.b, ret |-> FALSE]
             ELSE IF dev.signature # SFDP_SIGNATURE
             THEN [rt |-> rt, b |-> h.b, ret |-> FALSE]
             ELSE IF ~p.ok THEN [rt |-> rt, b |-> p.b, ret |-> FALSE]
             ELSE [rt |-> [rt EXCEPT !.is_supported = TRUE], b |-> p.b, ret |-> TRUE]
    ELSE [rt |-> rt, b |-> b, ret |-> rt.is_supported]

\* the descriptors tried: right and wrong signature and reserved bytes, one
\* or more parameter headers, a base table of up to MaxTableDwords dwords
ParameterHeaders ==
    [reserved_0xFF : {RESERVED_0xFF, 0}, length : 0..MaxTableDwords, table_pointer : {48}]
Descriptors ==
    UNION {[signature : {SFDP_SIGNATURE, 0}, reserved_0xFF : {RESERVED_0xFF, 0},
            header_count : {k}, params : [1..(k + 1) -> ParameterHeaders]] :
           k \in 0..MaxHeaderCount}

\* the SPI calls of the longest probe: three for the JEDEC ID and three for
\* every read of the SFDP area
LongestProbe == 3 * (2 + (MaxHeaderCount + 1) + MaxTableDwords)

SfdpInit ==
    /\ \E fail_at \in -1..LongestProbe :
          \E r \in {sfdp_init(sfdp, sfdp_dev, IdleBus(fail_at))} :
              /\ sfdp' = r.rt
              /\ sfdp_call' = [called |-> TRUE, ret |-> r.ret, bus |-> r.b]
    /\ UNCHANGED <<sfdp_dev, StoreVars, eeVars, devVars, sfdpVars, konamiVars, lookupVars,
                   ctx, eofVars, rmdir_last>>

InitProbe ==
    /\ keyboard = NarrowKeyboard /\ StoreStatics /\ EeStatics /\ DevStatics /\ SfdpStatics
    /\ KonamiStatics /\ LookupStatics /\ ContextStatics /\ EofStatics
    /\ FsStart /\ disk = "formatted" /\ MtStart /\ PathIdle
    /\ rmdir_last = NoRmdir
    /\ sfdp_dev \in Descriptors
    /\ sfdp = SfdpRuntime
    /\ sfdp_call = NoProbe

NextProbe == SfdpInit

SpecProbe == InitProbe /\ [][NextProbe]_vars

\* the addresses of a probe that reads everything: the header, then every
\* parameter header at 8 + n*8, the dwords of the base table after the first
HeaderAddress(n) == 8 + n * 8
RECURSIVE DwordAddresses(_, _, _)
DwordAddresses(table_pointer, length, n) ==
    IF n > length THEN <<>>
    ELSE <<table_pointer + (n - 1) * 4>> \o DwordAddresses(table_pointer, length, n + 1)
RECURSIVE LaterHeaders(_, _)
LaterHeaders(n, header_count) ==
    IF n > header_count THEN <<>>
    ELSE <<HeaderAddress(n)>> \o LaterHeaders(n + 1, header_count)
FullProbe(dev) ==
    <<0, HeaderAddress(0)>>
        \o DwordAddresses(dev.params[1].table_pointer, dev.params[1].length, 1)
        \o LaterHeaders(1, dev.header_count)

\* the descriptor passes every check of the probe
DescriptorValid(dev) ==
    /\ dev.signature = SFDP_SIGNATURE
    /\ dev.reserved_0xFF = RESERVED_0xFF
    /\ \A n \in 0..dev.header_count : dev.params[n + 1].reserved_0xFF = RESERVED_0xFF

\* C36: sfdp_init returns true only if no SPI transfer failed, the header
\* has the signature and the reserved byte, every one of the header_count+1
\* parameter headers, read at 8 + n*8, has the reserved byte, and every dword
\* of the base table was read; a failed transfer or check makes the call
\* return false; every transaction started has been stopped on return.
C36_ProbeChecksEverything ==
    sfdp_call.called =>
        /\ sfdp_call.ret = TRUE =>
              /\ ~sfdp_call.bus.failed
              /\ DescriptorValid(sfdp_dev)
              /\ sfdp_call.bus.reads = FullProbe(sfdp_dev)
        /\ sfdp_call.bus.failed => sfdp_call.ret = FALSE
        /\ ~DescriptorValid(sfdp_dev) => sfdp_call.ret = FALSE
        /\ ~sfdp_call.bus.active
        /\ sfdp_call.bus.started = sfdp_call.bus.stopped

\* a probe that failed in the receive of a dword of the base table
C36_Witness ==
    /\ sfdp_call.called /\ sfdp_call.bus.failed /\ ~sfdp_call.ret
    /\ Len(sfdp_call.bus.reads) = 2
    /\ sfdp_call.bus.calls = 12
    /\ sfdp_call.bus.started = 4 /\ sfdp_call.bus.stopped = 4

====
